---------------------------- MODULE Spec2Model ----------------------------
(***************************************************************************)
(* A model of the FMAA backend: the agent factory (agent lifecycle), the   *)
(* three POST handlers that record a task around their work (sentiment,    *)
(* recommendation, monitoring), and the statistics of the performance      *)
(* monitor (health score, anomaly detection, capacity projection,          *)
(* aggregation helpers).                                                   *)
(*                                                                         *)
(* JavaScript numbers are modelled as exact rationals with the special     *)
(* values NaN, +/-Infinity and undefined kept apart, so that a division by *)
(* zero or a read past the end of an array is visible in a result.         *)
(***************************************************************************)
EXTENDS Integers, Sequences, FiniteSets, TLC

VARIABLES
  fn,         \* statistics: the function applied ("none" before the call)
  args,       \* statistics: the arguments the function is applied to
  ret,        \* statistics: the value the function returned
  tasks,      \* agent_tasks: task id -> status ("none" when there is no row)
  reqs,       \* the POST requests in flight: request id -> its frame
  metricRows, \* agent_metrics rows written by logMetrics
  agents,     \* agents: agent id -> status ("none" when there is no row)
  deploys,    \* deployAgent timers/calls: agent id -> position
  agentMetricRows, \* agent_metrics rows written by deployAgent
  logRows,    \* agent_logs rows written by logActivity and logAgentActivity
  sessions,   \* user_sessions: session id -> its row ("none" when there is none)
  now         \* the clock that new Date() reads in the session functions

vars == <<fn, args, ret, tasks, reqs, metricRows, agents, deploys,
         agentMetricRows, logRows, sessions, now>>

statVars    == <<fn, args, ret>>
taskVars    == <<tasks, reqs, metricRows>>
agentVars   == <<agents, deploys, agentMetricRows>>

-----------------------------------------------------------------------------
(* JavaScript numbers *)

RECURSIVE GCD(_, _)
GCD(a, b) == IF b = 0 THEN a ELSE GCD(b, a % b)

Abs(x) == IF x < 0 THEN -x ELSE x

\* The rational n/d in lowest terms with a positive denominator.
Num(n, d) ==
  LET g == GCD(Abs(n), Abs(d))
      s == IF d < 0 THEN -1 ELSE 1
  IN  [k |-> "num", n |-> (s * n) \div g, d |-> (s * d) \div g]

JSInt(n)    == [k |-> "num", n |-> n, d |-> 1]
NaN       == [k |-> "nan", n |-> 0, d |-> 1]
Infinity  == [k |-> "inf", n |-> 1, d |-> 1]
NegInfinity == [k |-> "inf", n |-> -1, d |-> 1]
Undefined == [k |-> "undef", n |-> 0, d |-> 1]
\* The irrational square root of the rational n/d (n/d not a perfect square).
Surd(n, d) == [k |-> "sqrt", n |-> n, d |-> d]

IsNum(x) == x.k = "num"
\* undefined converts to NaN in arithmetic.
IsNaN(x) == x.k \in {"nan", "undef"}
Sign(x)  == IF x.n > 0 THEN 1 ELSE IF x.n < 0 THEN -1 ELSE 0

JSAdd(x, y) ==
  IF IsNaN(x) \/ IsNaN(y) THEN NaN
  ELSE IF x.k = "inf" /\ y.k = "inf" THEN (IF x.n = y.n THEN x ELSE NaN)
  ELSE IF x.k = "inf" THEN x
  ELSE IF y.k = "inf" THEN y
  ELSE Num(x.n * y.d + y.n * x.d, x.d * y.d)

JSNeg(x) == IF IsNaN(x) THEN NaN ELSE [x EXCEPT !.n = -x.n]

JSSub(x, y) == JSAdd(x, JSNeg(y))

JSMul(x, y) ==
  IF IsNaN(x) \/ IsNaN(y) THEN NaN
  ELSE IF x.k = "inf" \/ y.k = "inf"
       THEN (IF Sign(x) * Sign(y) = 0 THEN NaN
             ELSE IF Sign(x) * Sign(y) > 0 THEN Infinity ELSE NegInfinity)
  ELSE Num(x.n * y.n, x.d * y.d)

\* x / y: 0/0 is NaN, a non-zero number over 0 is an infinity.
JSDiv(x, y) ==
  IF IsNaN(x) \/ IsNaN(y) THEN NaN
  ELSE IF x.k = "inf" /\ y.k = "inf" THEN NaN
  ELSE IF x.k = "inf" THEN (IF Sign(y) >= 0 THEN x ELSE JSNeg(x))
  ELSE IF y.k = "inf" THEN JSInt(0)
  ELSE IF y.n = 0
       THEN (IF x.n = 0 THEN NaN ELSE IF x.n > 0 THEN Infinity ELSE NegInfinity)
  ELSE Num(x.n * y.d, x.d * y.n)

\* x > y; every comparison with NaN is false.
JSGt(x, y) ==
  IF IsNaN(x) \/ IsNaN(y) THEN FALSE
  ELSE IF x.k = "sqrt"   \* sqrt(n/d) > y, y a number
       THEN y.k = "num" /\ (y.n < 0 \/ x.n * y.d * y.d > y.n * y.n * x.d)
  ELSE IF y.k = "sqrt"   \* x > sqrt(n/d), x a number
       THEN (x.k = "inf" /\ x.n > 0)
            \/ (x.k = "num" /\ x.n > 0 /\ x.n * x.n * y.d > y.n * x.d * x.d)
  ELSE IF x.k = "inf" THEN x.n > 0 /\ ~(y.k = "inf" /\ y.n > 0)
  ELSE IF y.k = "inf" THEN y.n < 0
  ELSE x.n * y.d > y.n * x.d

\* x > y where the code has x >= y (a mutation of the code).
StrictlyGreater(x, y) == JSGt(x, y)

JSGe(x, y) ==
  IF IsNaN(x) \/ IsNaN(y) THEN FALSE ELSE JSGt(x, y) \/ x = y

JSMax(x, y) == IF IsNaN(x) \/ IsNaN(y) THEN NaN ELSE IF JSGt(y, x) THEN y ELSE x
JSMin(x, y) == IF IsNaN(x) \/ IsNaN(y) THEN NaN ELSE IF JSGt(x, y) THEN y ELSE x

JSAbs(x) == IF IsNaN(x) THEN NaN ELSE [x EXCEPT !.n = Abs(x.n)]

\* Math.round: the nearest integer, a half rounding up; NaN and the
\* infinities are returned as they are.
MathRound(x) ==
  IF IsNaN(x) THEN NaN
  ELSE IF x.k = "inf" THEN x
  ELSE JSInt((2 * x.n + x.d) \div (2 * x.d))

RECURSIVE SqrtBetween(_, _, _)
\* The largest r in lo..hi with r * r <= n, by bisection.
SqrtBetween(n, lo, hi) ==
  IF lo >= hi THEN lo
  ELSE LET mid == (lo + hi + 1) \div 2
       IN  IF mid * mid <= n THEN SqrtBetween(n, mid, hi)
           ELSE SqrtBetween(n, lo, mid - 1)

\* The integer part of the square root of n, 0 <= n < 2^31.
ISqrt(n) == SqrtBetween(n, 0, IF n < 46340 THEN n ELSE 46340)

\* Math.sqrt of a rational: exact when numerator and denominator are squares.
MathSqrt(x) ==
  IF IsNaN(x) THEN NaN
  ELSE IF x.k = "inf" THEN (IF x.n > 0 THEN x ELSE NaN)
  ELSE IF x.n < 0 THEN NaN
  ELSE LET rn == ISqrt(x.n)
           rd == ISqrt(x.d)
       IN  IF rn * rn = x.n /\ rd * rd = x.d THEN Num(rn, rd) ELSE Surd(x.n, x.d)

\* A result a caller can use as a number: neither undefined, NaN nor infinite.
Defined(x) == x.k \in {"num", "sqrt"}

-----------------------------------------------------------------------------
(* Array helpers *)

RECURSIVE SumFrom(_, _)
\* values.reduce((sum, val) => sum + val, 0) from index i on.
SumFrom(vals, i) ==
  IF i > Len(vals) THEN JSInt(0) ELSE JSAdd(vals[i], SumFrom(vals, i + 1))

Sum(vals) == SumFrom(vals, 1)

IsResponseTime(m) == m.metric_type = "response_time"

RECURSIVE AvgFrom(_, _)
AvgFrom(arr, i) ==
  IF i > Len(arr) THEN JSInt(0)
  ELSE JSAdd(JSDiv(arr[i].metric_value, JSInt(Len(arr))), AvgFrom(arr, i + 1))

\* metrics.filter(m => m.metric_type === 'response_time')
\*        .reduce((sum, m, _, arr) => sum + m.metric_value / arr.length, 0)
AvgResponseTime(metrics) == AvgFrom(SelectSeq(metrics, IsResponseTime), 1)

-----------------------------------------------------------------------------
(* parseTimeframe: a timeframe is the sequence of its characters *)

Digits == {"0", "1", "2", "3", "4", "5", "6", "7", "8", "9"}

DigitVal(c) ==
  CASE c = "0" -> 0 [] c = "1" -> 1 [] c = "2" -> 2 [] c = "3" -> 3
    [] c = "4" -> 4 [] c = "5" -> 5 [] c = "6" -> 6 [] c = "7" -> 7
    [] c = "8" -> 8 [] c = "9" -> 9

RECURSIVE SkipSpaces(_)
SkipSpaces(cs) ==
  IF cs # <<>> /\ Head(cs) = " " THEN SkipSpaces(Tail(cs)) ELSE cs

RECURSIVE ParseDigits(_, _, _)
\* The value of the longest prefix of digits of cs; NaN when it is empty.
ParseDigits(cs, acc, seen) ==
  IF cs # <<>> /\ Head(cs) \in Digits
  THEN ParseDigits(Tail(cs), 10 * acc + DigitVal(Head(cs)), TRUE)
  ELSE IF seen THEN JSInt(acc) ELSE NaN

\* parseInt(string): leading blanks, an optional sign, then decimal digits
\* up to the first character that is none.
ParseInt(cs) ==
  LET t == SkipSpaces(cs)
  IN  IF t # <<>> /\ Head(t) = "-" THEN JSNeg(ParseDigits(Tail(t), 0, FALSE))
      ELSE IF t # <<>> /\ Head(t) = "+" THEN ParseDigits(Tail(t), 0, FALSE)
      ELSE ParseDigits(t, 0, FALSE)

MsPerHour == 3600000
MsPerDay  == 86400000
MsPerWeek == 604800000

\* The duration is kept in hours (1 h = 3600000 ms) so that the products
\* stay inside TLC's integers; parseTimeframe(tf) = ParseTimeframeHours(tf) h.
ParseTimeframeHours(timeframe) ==
  LET n     == Len(timeframe)
      unit  == IF n = 0 THEN "" ELSE timeframe[n]
      value == ParseInt(IF n = 0 THEN <<>> ELSE SubSeq(timeframe, 1, n - 1))
  IN  CASE unit = "h" -> JSMul(value, JSInt(MsPerHour \div MsPerHour))
        [] unit = "d" -> JSMul(value, JSInt(MsPerDay \div MsPerHour))
        [] unit = "w" -> JSMul(value, JSInt(MsPerWeek \div MsPerHour))
        [] OTHER      -> JSInt(MsPerDay \div MsPerHour)

-----------------------------------------------------------------------------
(* Health Scorer *)

\* The filter inverted: the agents that are not active (a mutation of the
\* code).
IsNotActive(a) == a.status # "active"

IsActive(a)    == a.status = "active"
IsCompleted(t) == t.status = "completed"

StatusOfUnrounded(healthScore) ==
  IF JSGe(healthScore, JSInt(80)) THEN "excellent"
  ELSE IF JSGe(healthScore, JSInt(60)) THEN "good"
  ELSE IF JSGe(healthScore, JSInt(40)) THEN "fair"
  ELSE "poor"

\* The response-time term without its lower clamp (a mutation of the code).
ResponseTimeScoreUnclamped(avgResponseTime) ==
  JSSub(JSInt(100), JSDiv(avgResponseTime, JSInt(10)))

\* Math.max(0, 100 - (avgResponseTime / 10))
ResponseTimeScore(avgResponseTime) ==
  JSMax(JSInt(0), JSSub(JSInt(100), JSDiv(avgResponseTime, JSInt(10))))

Max(a, b) == IF a >= b THEN a ELSE b

calculateSystemHealth(agentList, metrics, taskList) ==
  LET activeAgents          == Len(SelectSeq(agentList, IsActive))
      totalAgents           == Len(agentList)
      recentSuccessfulTasks == Len(SelectSeq(taskList, IsCompleted))
      totalRecentTasks      == Len(taskList)
      avgResponseTime       == AvgResponseTime(metrics)
      availability == JSDiv(JSInt(activeAgents), JSInt(Max(totalAgents, 1)))
      successRate  == JSDiv(JSInt(recentSuccessfulTasks),
                            JSInt(Max(totalRecentTasks, 1)))
      responseTimeScore == ResponseTimeScore(avgResponseTime)
      healthScore ==
        JSAdd(JSAdd(JSAdd(JSInt(0), JSMul(availability, JSInt(40))),
                    JSMul(successRate, JSInt(40))),
              JSMul(JSDiv(responseTimeScore, JSInt(100)), JSInt(20)))
  IN  [ score  |-> MathRound(healthScore),
        status |-> StatusOfUnrounded(healthScore),
        factors |->
          [ agent_availability |-> MathRound(JSMul(availability, JSInt(100))),
            task_success_rate  |-> MathRound(JSMul(successRate, JSInt(100))),
            avg_response_time  |-> MathRound(avgResponseTime) ] ]

-----------------------------------------------------------------------------
(* Mathematical utility functions *)

RECURSIVE Insert(_, _)
\* v put into the ascending sequence s, after the elements equal to it.
Insert(s, v) ==
  IF s = <<>> THEN <<v>>
  ELSE IF JSGt(Head(s), v) THEN <<v>> \o s
  ELSE <<Head(s)>> \o Insert(Tail(s), v)

RECURSIVE SortFrom(_, _)
SortFrom(vals, i) ==
  IF i = 0 THEN <<>> ELSE Insert(SortFrom(vals, i - 1), vals[i])

\* No ordering of the copy (a mutation of the code).
Unsorted(vals) == vals

\* [...values].sort((a, b) => a - b): a sorted copy.
SortAscending(vals) == SortFrom(vals, Len(vals))

\* array[i] with JavaScript's 0-based index: undefined outside the array.
At(arr, i) == IF i >= 0 /\ i < Len(arr) THEN arr[i + 1] ELSE Undefined

calculateMedian(vals) ==
  LET sorted == SortAscending(vals)
      mid    == Len(sorted) \div 2
  IN  IF Len(sorted) % 2 = 0
      THEN JSDiv(JSAdd(At(sorted, mid - 1), At(sorted, mid)), JSInt(2))
      ELSE At(sorted, mid)

\* Math.floor in place of Math.ceil (a mutation of the code).
FloorDiv(n, d) == n \div d

\* Math.ceil of the rational n/d, d > 0.
CeilDiv(n, d) == -((-n) \div d)

calculatePercentile(vals, percentile) ==
  LET sorted == SortAscending(vals)
      index  == CeilDiv(percentile * Len(sorted), 100) - 1
  IN  At(sorted, Max(0, index))

RECURSIVE SumSqDevFrom(_, _, _)
\* values.reduce((sum, val) => sum + Math.pow(val - mean, 2), 0)
SumSqDevFrom(vals, mean, i) ==
  IF i > Len(vals) THEN JSInt(0)
  ELSE JSAdd(JSMul(JSSub(vals[i], mean), JSSub(vals[i], mean)),
             SumSqDevFrom(vals, mean, i + 1))

Mean(vals) == JSDiv(Sum(vals), JSInt(Len(vals)))

\* The population variance: the mean squared deviation from the mean.
Variance(vals) ==
  JSDiv(SumSqDevFrom(vals, Mean(vals), 1), JSInt(Len(vals)))

calculateStandardDeviation(vals) == MathSqrt(Variance(vals))

RECURSIVE MinFrom(_, _)
\* Math.min(...values): Infinity for no argument.
MinFrom(vals, i) ==
  IF i > Len(vals) THEN Infinity ELSE JSMin(vals[i], MinFrom(vals, i + 1))

\* Math.min where the code has Math.max (a mutation of the code).
SmallestFrom(vals, i) == MinFrom(vals, i)

RECURSIVE MaxFrom(_, _)
\* Math.max(...values): -Infinity for no argument.
MaxFrom(vals, i) ==
  IF i > Len(vals) THEN NegInfinity ELSE JSMax(vals[i], MaxFrom(vals, i + 1))

-----------------------------------------------------------------------------
(* Grouping of metrics by metric_type *)

RECURSIVE TypesFrom(_, _, _)
\* The metric types in the order of their first occurrence (the key order of
\* the object built by reduce).
TypesFrom(metrics, i, seen) ==
  IF i > Len(metrics) THEN <<>>
  ELSE IF metrics[i].metric_type \in seen THEN TypesFrom(metrics, i + 1, seen)
  ELSE <<metrics[i].metric_type>>
         \o TypesFrom(metrics, i + 1, seen \cup {metrics[i].metric_type})

MetricTypes(metrics) == TypesFrom(metrics, 1, {})

OfType(metrics, type) ==
  LET Same(m) == m.metric_type = type IN SelectSeq(metrics, Same)

ValuesOf(typeMetrics) ==
  [i \in 1..Len(typeMetrics) |-> typeMetrics[i].metric_value]

-----------------------------------------------------------------------------
(* Anomaly Detector *)

\* sensitivityThresholds[sensitivity] || 2.5
Threshold(sensitivity) ==
  CASE sensitivity = "low"    -> JSInt(3)
    [] sensitivity = "medium" -> Num(5, 2)
    [] sensitivity = "high"   -> JSInt(2)
    [] OTHER                  -> Num(5, 2)

\* Math.abs((value - mean) / stdDev), stdDev the square root of the variance.
\* Over an irrational stdDev the quotient is |dev| / sqrt(var) =
\* sqrt(dev^2 / var).
ZScore(value, mean, stdDev) ==
  LET dev == JSSub(value, mean)
  IN  IF stdDev.k = "sqrt"
      THEN (IF dev.n = 0 THEN JSInt(0)
            ELSE LET q == JSDiv(JSMul(dev, dev), Num(stdDev.n, stdDev.d))
                 IN  Surd(q.n, q.d))
      ELSE JSAbs(JSDiv(dev, stdDev))

\* The test with a non-strict comparison (a mutation of the code).
ExceedsOrEquals(zScore, threshold) ==
  JSGt(zScore, threshold) \/ zScore = threshold

\* The test written as "not within" (a mutation of the code): true of NaN.
NotWithin(zScore, threshold) ==
  ~(JSGt(threshold, zScore) \/ zScore = threshold)

\* if (zScore > threshold)
Exceeds(zScore, threshold) == JSGt(zScore, threshold)

RECURSIVE AnomaliesOfGroup(_, _, _, _, _)
\* typeMetrics.forEach(metric => ...) from index i on.
AnomaliesOfGroup(typeMetrics, mean, stdDev, threshold, i) ==
  IF i > Len(typeMetrics) THEN <<>>
  ELSE LET metric == typeMetrics[i]
           zScore == ZScore(metric.metric_value, mean, stdDev)
       IN  (IF Exceeds(zScore, threshold)
            THEN << [ metric_id   |-> metric.id,
                      metric_type |-> metric.metric_type,
                      value       |-> metric.metric_value,
                      z_score     |-> zScore,
                      severity    |->
                        IF Exceeds(zScore, JSMul(threshold, Num(3, 2)))
                        THEN "high" ELSE "medium" ] >>
            ELSE <<>>)
           \o AnomaliesOfGroup(typeMetrics, mean, stdDev, threshold, i + 1)

RECURSIVE AnomaliesOfTypes(_, _, _, _)
\* for (const [type, typeMetrics] of Object.entries(metricsByType))
AnomaliesOfTypes(metrics, types, threshold, i) ==
  IF i > Len(types) THEN <<>>
  ELSE LET typeMetrics == OfType(metrics, types[i])
           vals        == ValuesOf(typeMetrics)
           mean        == Mean(vals)
           stdDev      == MathSqrt(Variance(vals))
       IN  AnomaliesOfGroup(typeMetrics, mean, stdDev, threshold, 1)
           \o AnomaliesOfTypes(metrics, types, threshold, i + 1)

\* The anomaly records without expected_range and timestamp, which no
\* other field depends on.
detectMetricAnomalies(metrics, sensitivity) ==
  AnomaliesOfTypes(metrics, MetricTypes(metrics), Threshold(sensitivity), 1)

-----------------------------------------------------------------------------
(* Capacity Projector *)

RECURSIVE IntPow(_, _)
IntPow(base, e) == IF e = 0 THEN JSInt(1) ELSE JSMul(base, IntPow(base, e - 1))

\* Math.pow(base, days / 30) for the fractional exponents 7/30 and 14/30,
\* rounded to four decimals (the exact values are irrational).
FractionalPow ==
  [ b \in {Num(11, 10), Num(3, 2)}, days \in {7, 14} |->
      CASE b = Num(11, 10) /\ days = 7  -> Num(10225, 10000)
        [] b = Num(11, 10) /\ days = 14 -> Num(10455, 10000)
        [] b = Num(3, 2)   /\ days = 7  -> Num(10992, 10000)
        [] b = Num(3, 2)   /\ days = 14 -> Num(12083, 10000) ]

\* Math.pow(base, exponent), base >= 1 a rational: NaN for a NaN exponent
\* (also when the base is 1), 1 for the base 1 and for the exponent 0.
MathPow(base, exponent) ==
  IF IsNaN(exponent) THEN NaN
  ELSE IF exponent.n = 0 THEN JSInt(1)
  ELSE IF IsNaN(base) THEN NaN
  ELSE IF base = JSInt(1) THEN JSInt(1)
  ELSE IF exponent.d = 1 /\ exponent.n > 0 THEN IntPow(base, exponent.n)
  ELSE FractionalPow[base, (exponent.n * 30) \div exponent.d]

generateCapacityRecommendations(current, projected, responseTime) ==
  (IF JSGt(projected, JSMul(current, JSInt(2)))
   THEN << [priority |-> "high", action |-> "Scale infrastructure"] >>
   ELSE <<>>)
  \o (IF JSGt(responseTime, JSInt(500))
      THEN << [priority |-> "medium", action |-> "Optimize performance"] >>
      ELSE <<>>)
  \o (IF JSGt(projected, JSMul(current, Num(3, 2)))
      THEN << [priority |-> "medium", action |-> "Plan capacity increase"] >>
      ELSE <<>>)

Checkpoints == <<7, 14, 30, 60, 90>>

RECURSIVE MilestonesFrom(_, _, _)
\* checkpoints.forEach(days => { if (days <= projectionDays) ... })
MilestonesFrom(projectionDays, growthRate, i) ==
  IF i > Len(Checkpoints) THEN <<>>
  ELSE LET days == Checkpoints[i]
           growthFactor ==
             MathPow(JSAdd(JSInt(1), growthRate), Num(days, 30))
       IN  (IF JSGe(projectionDays, JSInt(days))
            THEN << [ day |-> days,
                      growth_factor |->
                        JSDiv(MathRound(JSMul(growthFactor, JSInt(100))),
                              JSInt(100)),
                      action_required |->
                        IF JSGt(growthFactor, Num(3, 2)) THEN "Scale up"
                        ELSE IF JSGt(growthFactor, Num(6, 5))
                             THEN "Monitor closely"
                        ELSE "Normal operation" ] >>
            ELSE <<>>)
           \o MilestonesFrom(projectionDays, growthRate, i + 1)

generateScalingTimeline(projectionDays, growthRate) ==
  MilestonesFrom(projectionDays, growthRate, 1)

\* tasks is the list of the agent's tasks of the last 7 days.
analyzeCapacity(metrics, taskList, growthRate, projectionPeriod) ==
  LET currentThroughput == JSDiv(JSInt(Len(taskList)), JSInt(7))
      avgResponseTime   == AvgResponseTime(metrics)
      projectionDays ==
        JSDiv(ParseTimeframeHours(projectionPeriod),
              JSInt(MsPerDay \div MsPerHour))
      projectedThroughput ==
        JSMul(currentThroughput,
              MathPow(JSAdd(JSInt(1), growthRate),
                      JSDiv(projectionDays, JSInt(30))))
  IN  [ current |->
          [ throughput_per_day |-> MathRound(currentThroughput),
            avg_response_time  |-> MathRound(avgResponseTime),
            utilization |->
              JSMin(JSInt(100),
                    JSMul(JSDiv(currentThroughput, JSInt(100)), JSInt(100))) ],
        projected |->
          [ throughput_per_day |-> MathRound(projectedThroughput),
            estimated_response_time |->
              MathRound(JSMul(avgResponseTime,
                              JSDiv(projectedThroughput, currentThroughput))),
            estimated_utilization |->
              JSMin(JSInt(100),
                    JSMul(JSDiv(projectedThroughput, JSInt(100)), JSInt(100))) ],
        recommendations |->
          generateCapacityRecommendations(currentThroughput,
                                          projectedThroughput, avgResponseTime),
        timeline |-> generateScalingTimeline(projectionDays, growthRate) ]

\* config?.expected_growth_rate || 0.1: a rate of 0 is falsy.
GrowthRateOf(config) ==
  IF config.expected_growth_rate = Undefined
     \/ IsNaN(config.expected_growth_rate)
     \/ config.expected_growth_rate = JSInt(0)
  THEN Num(1, 10)
  ELSE config.expected_growth_rate

\* config?.projection_period || '30d': the empty string is falsy.
ProjectionPeriodOf(config) ==
  IF config.projection_period = <<>> THEN <<"3", "0", "d">>
  ELSE config.projection_period

RECURSIVE PlanningResultsFrom(_, _, _, _)
\* for (const agentId of target_agents || []): the rows of each agent are
\* those the store holds for it.
PlanningResultsFrom(target_agents, store, config, i) ==
  IF i > Len(target_agents) THEN <<>>
  ELSE LET agentId == target_agents[i]
           capacityAnalysis ==
             analyzeCapacity(store.metrics[agentId], store.tasks[agentId],
                             GrowthRateOf(config), ProjectionPeriodOf(config))
       IN  << [ agent_id           |-> agentId,
                current_capacity   |-> capacityAnalysis.current,
                projected_capacity |-> capacityAnalysis.projected,
                recommendations    |-> capacityAnalysis.recommendations,
                scaling_timeline   |-> capacityAnalysis.timeline ] >>
           \o PlanningResultsFrom(target_agents, store, config, i + 1)

performCapacityPlanning(target_agents, config, store) ==
  [ task_type        |-> "capacity_planning",
    planning_results |-> PlanningResultsFrom(target_agents, store, config, 1) ]

-----------------------------------------------------------------------------
(* Metric Aggregator *)

RECURSIVE DetailedFrom(_, _, _)
\* for (const [type, typeMetrics] of Object.entries(metricsByType))
DetailedFrom(metrics, types, i) ==
  IF i > Len(types) THEN <<>>
  ELSE LET vals == ValuesOf(OfType(metrics, types[i]))
       IN  << [ type    |-> types[i],
                count   |-> Len(vals),
                min     |-> MinFrom(vals, 1),
                max     |-> MaxFrom(vals, 1),
                average |-> JSDiv(Sum(vals), JSInt(Len(vals))),
                median  |-> calculateMedian(vals),
                percentile_95      |-> calculatePercentile(vals, 95),
                standard_deviation |-> calculateStandardDeviation(vals) ] >>
           \o DetailedFrom(metrics, types, i + 1)

\* The object keyed by metric type, as the sequence of its entries.
generateDetailedMetrics(metrics) ==
  DetailedFrom(metrics, MetricTypes(metrics), 1)

RECURSIVE SummaryFrom(_, _, _)
SummaryFrom(metrics, types, i) ==
  IF i > Len(types) THEN <<>>
  ELSE LET vals == ValuesOf(OfType(metrics, types[i]))
       IN  << [ type    |-> types[i],
                average |-> JSDiv(Sum(vals), JSInt(Len(vals))),
                min     |-> MinFrom(vals, 1),
                max     |-> MaxFrom(vals, 1),
                count   |-> Len(vals) ] >>
           \o SummaryFrom(metrics, types, i + 1)

calculatePerformanceSummary(metrics) ==
  SummaryFrom(metrics, MetricTypes(metrics), 1)

\* The audit of one agent calls analyzeMetrics, analyzeTaskPerformance,
\* calculatePerformanceScore, identifyPerformanceIssues and
\* generateAgentRecommendations, none of which is defined: the first call
\* throws a ReferenceError.  Without target agents the loop is skipped and
\* the overall score is the sum 0 over the length 0.
performPerformanceAudit(target_agents) ==
  IF Len(target_agents) > 0
  THEN [ threw |-> TRUE, task_type |-> "performance_audit",
         audit_results |-> <<>>, overall_score |-> Undefined ]
  ELSE [ threw |-> FALSE, task_type |-> "performance_audit",
         audit_results |-> <<>>,
         overall_score |-> JSDiv(JSInt(0), JSInt(Len(<<>>))) ]

-----------------------------------------------------------------------------
(* Inputs of the statistics functions *)

MaxAgents        == 3
MaxTasks         == 3
MaxHealthSamples == 2

BoundedSeq(S, n) == UNION { [1..k -> S] : k \in 0..n }

\* A metric row as the store returns it.
Metric(id, type, value) ==
  [id |-> id, metric_type |-> type, metric_value |-> JSInt(value)]

\* The rows the handlers and deployAgent write: response times in ms (150 is
\* deployAgent's initial sample) and success rates in percent.
HealthSampleKinds ==
  { <<"response_time", 150>>, <<"response_time", 350>>,
    <<"response_time", 2000>>, <<"success_rate", 100>> }

MetricsOfKinds(kinds) ==
  [i \in 1..Len(kinds) |-> Metric(i, kinds[i][1], kinds[i][2])]

WithStatus(statuses) == [i \in 1..Len(statuses) |-> [status |-> statuses[i]]]

-----------------------------------------------------------------------------
(* The statistics functions applied to their inputs *)

NoRequests == <<>>

\* The store and the requests play no part in the statistics.
IdleBackend ==
  /\ tasks = <<>>
  /\ reqs = NoRequests
  /\ metricRows = <<>>
  /\ agents = <<>>
  /\ deploys = <<>>
  /\ agentMetricRows = {}
  /\ logRows = {}
  /\ sessions = <<>>
  /\ now = 0

BackendUnchanged ==
  UNCHANGED <<tasks, reqs, metricRows, agents, deploys, agentMetricRows,
              logRows, sessions, now>>

InitHealth ==
  /\ fn = "none"
  /\ ret = Undefined
  /\ \E a \in BoundedSeq({"active", "error"}, MaxAgents),
        t \in BoundedSeq({"completed", "failed"}, MaxTasks),
        m \in BoundedSeq(HealthSampleKinds, MaxHealthSamples) :
       args = [ agents  |-> WithStatus(a),
                tasks   |-> WithStatus(t),
                metrics |-> MetricsOfKinds(m) ]
  /\ IdleBackend

CallSystemHealth ==
  /\ fn = "none"
  /\ fn' = "calculateSystemHealth"
  /\ ret' = calculateSystemHealth(args.agents, args.metrics, args.tasks)
  /\ UNCHANGED args
  /\ BackendUnchanged

NextHealth == CallSystemHealth

SpecHealth == InitHealth /\ [][NextHealth]_vars

\* The bucket the documented thresholds give a reported score.
BucketOf(score) ==
  IF score >= 80 THEN "excellent"
  ELSE IF score >= 60 THEN "good"
  ELSE IF score >= 40 THEN "fair"
  ELSE "poor"

HealthReturned == fn = "calculateSystemHealth"

\* C5 (as claimed): the status of a health result is the bucket of its
\* reported, rounded score: excellent from 80, good from 60, fair from 40,
\* poor below.
C5_StatusIsBucketOfScore ==
  HealthReturned =>
    /\ IsNum(ret.score)
    /\ ret.status = BucketOf(ret.score.n)

-----------------------------------------------------------------------------
(* detectMetricAnomalies applied to the rows logMetrics writes *)

MaxSamples  == 11
MaxOutliers == 2

\* The rows of n handled requests in timestamp order: each request logs a
\* response_time row and a success_rate row (100 or 0).  The requests in
\* slow took 50 ms, the others 20 ms; the requests in failed failed.
LoggedMetrics(n, slow, failed) ==
  [ i \in 1..(2 * n) |->
      LET call == (i + 1) \div 2
      IN  IF i % 2 = 1
          THEN Metric(i, "response_time",
                      IF call \in slow THEN 50 ELSE 20)
          ELSE Metric(i, "success_rate", IF call \in failed THEN 0 ELSE 100) ]

Sensitivities == {"low", "medium", "high"}

\* The first c or the last c of n requests, c up to MaxOutliers.
Runs(n) ==
  { 1..c : c \in 0..MaxOutliers } \cup { (n - c + 1)..n : c \in 0..MaxOutliers }

InitAnomaly ==
  /\ fn = "none"
  /\ ret = Undefined
  /\ \E n \in 0..MaxSamples :
       \E slow \in Runs(n), failed \in Runs(n),
          sensitivity \in Sensitivities \cup {"extreme"} :
         /\ slow \subseteq 1..n
         /\ failed \subseteq 1..n
         /\ args = [ metrics     |-> LoggedMetrics(n, slow, failed),
                     sensitivity |-> sensitivity ]
  /\ IdleBackend

CallDetectMetricAnomalies ==
  /\ fn = "none"
  /\ fn' = "detectMetricAnomalies"
  /\ ret' = detectMetricAnomalies(args.metrics, args.sensitivity)
  /\ UNCHANGED args
  /\ BackendUnchanged

NextAnomaly == CallDetectMetricAnomalies

SpecAnomaly == InitAnomaly /\ [][NextAnomaly]_vars

AnomaliesReturned == fn = "detectMetricAnomalies"

Reported(m) == \E i \in 1..Len(ret) : ret[i].metric_id = m.id

GroupOf(m) ==
  { i \in 1..Len(args.metrics) : args.metrics[i].metric_type = m.metric_type }

RECURSIVE SetSum(_, _)
\* The sum of f over the finite set S of indices.
SetSum(f, S) ==
  IF S = {} THEN 0
  ELSE LET x == CHOOSE y \in S : TRUE IN f[x] + SetSum(f, S \ {x})

ValueAt ==
  [i \in 1..Len(args.metrics) |-> args.metrics[i].metric_value.n]
SquareAt ==
  [i \in 1..Len(args.metrics) |-> ValueAt[i] * ValueAt[i]]

\* n^2 times the population variance of m's group: n * sum(v^2) - sum(v)^2.
ScaledVariance(m) ==
  LET G == GroupOf(m)
  IN  Cardinality(G) * SetSum(SquareAt, G) - SetSum(ValueAt, G) * SetSum(ValueAt, G)

\* n times the distance of m's value from the mean of its group.
ScaledDistance(m) ==
  LET G == GroupOf(m)
  IN  Abs(Cardinality(G) * m.metric_value.n - SetSum(ValueAt, G))

\* Four times the square of the documented threshold: 3.0, 2.5 and 2.0.
FourThresholdSquared(sensitivity) ==
  CASE sensitivity = "low"    -> 36
    [] sensitivity = "medium" -> 25
    [] sensitivity = "high"   -> 16

\* distance / standard deviation > threshold, in integers: the quotient is
\* undefined, and not greater, when the deviation is 0.
BeyondThreshold(m, sensitivity) ==
  /\ ScaledVariance(m) > 0
  /\ 4 * ScaledDistance(m) * ScaledDistance(m)
       > FourThresholdSquared(sensitivity) * ScaledVariance(m)

ConstantGroup(m) ==
  \A i \in GroupOf(m) : args.metrics[i].metric_value = m.metric_value

\* C9: no sample of a group whose values are all equal is reported, at any
\* sensitivity and for any group size.
C9_ConstantGroupNotReported ==
  AnomaliesReturned =>
    \A i \in 1..Len(args.metrics) :
      ConstantGroup(args.metrics[i]) => ~Reported(args.metrics[i])

\* C9's case: a constant group of several samples is left alone in a result
\* that reports a sample of another group.
C9_Witness ==
  /\ AnomaliesReturned
  /\ ret # <<>>
  /\ \E i \in 1..Len(args.metrics) :
       /\ ConstantGroup(args.metrics[i])
       /\ Cardinality(GroupOf(args.metrics[i])) >= 2

\* C10: a sample is reported, once, if and only if its distance from the
\* population mean of its group over the population standard deviation of
\* the group is strictly greater than 3.0 (low), 2.5 (medium), 2.0 (high).
C10_ReportedIffBeyondThreshold ==
  (AnomaliesReturned /\ args.sensitivity \in Sensitivities) =>
    /\ \A i \in 1..Len(args.metrics) :
         Reported(args.metrics[i])
           <=> BeyondThreshold(args.metrics[i], args.sensitivity)
    /\ \A i, j \in 1..Len(ret) : ret[i].metric_id = ret[j].metric_id => i = j
    /\ \A i \in 1..Len(ret) :
         \E j \in 1..Len(args.metrics) :
           /\ args.metrics[j].id = ret[i].metric_id
           /\ args.metrics[j].metric_type = ret[i].metric_type

\* C10's case: at low sensitivity one sample is reported and one of another
\* group, off its mean, is not.
C10_Witness ==
  /\ AnomaliesReturned
  /\ args.sensitivity = "low"
  /\ \E i, j \in 1..Len(args.metrics) :
       /\ Reported(args.metrics[i])
       /\ ~Reported(args.metrics[j])
       /\ ScaledDistance(args.metrics[j]) > 0

-----------------------------------------------------------------------------
(* analyzeCapacity and a capacity_planning task applied to their inputs *)

MaxWindowTasks     == 8
MaxCapacitySamples == 2

CapacitySampleKinds ==
  { <<"response_time", 200>>, <<"response_time", 700>>, <<"success_rate", 100>> }

\* Well-formed horizons of 7, 14, 30 and 60 days, and a malformed one.
ProjectionPeriods ==
  { <<"7", "d">>, <<"2", "w">>, <<"3", "0", "d">>, <<"6", "0", "d">>,
    <<"a", "d">> }

GrowthRates == { JSInt(0), Num(1, 10), Num(1, 2) }

TaskRows(n) == [i \in 1..n |-> [id |-> i, status |-> "completed"]]

InitCapacity ==
  /\ fn = "none"
  /\ ret = Undefined
  /\ \E n \in 0..MaxWindowTasks,
        m \in BoundedSeq(CapacitySampleKinds, MaxCapacitySamples),
        g \in GrowthRates,
        p \in ProjectionPeriods :
       args = [ metrics    |-> MetricsOfKinds(m),
                tasks      |-> TaskRows(n),
                growthRate |-> g,
                projectionPeriod |-> p ]
  /\ IdleBackend

CallAnalyzeCapacity ==
  /\ fn = "none"
  /\ fn' = "analyzeCapacity"
  /\ ret' = analyzeCapacity(args.metrics, args.tasks, args.growthRate,
                            args.projectionPeriod)
  /\ UNCHANGED args
  /\ BackendUnchanged

\* A capacity_planning task for the agent "a1" whose rows of the last 7 days
\* are args.metrics and args.tasks, with monitoring_config
\* { expected_growth_rate, projection_period } taken from args.
CallCapacityPlanning ==
  /\ fn = "none"
  /\ fn' = "performCapacityPlanning"
  /\ ret' = performCapacityPlanning(
              <<"a1">>,
              [ expected_growth_rate |-> args.growthRate,
                projection_period    |-> args.projectionPeriod ],
              [ metrics |-> [a \in {"a1"} |-> args.metrics],
                tasks   |-> [a \in {"a1"} |-> args.tasks] ])
  /\ UNCHANGED args
  /\ BackendUnchanged

NextCapacity == CallAnalyzeCapacity \/ CallCapacityPlanning

SpecCapacity == InitCapacity /\ [][NextCapacity]_vars

WellFormedPeriod == IsNum(ParseTimeframeHours(args.projectionPeriod))

\* The projected figures equal the current ones: the rounded throughput and
\* the utilization, which carries the unrounded throughput below 100 a day.
ProjectedEqualsCurrent(current, projected) ==
  /\ projected.throughput_per_day = current.throughput_per_day
  /\ projected.estimated_utilization = current.utilization

\* C7 (as claimed): with growth rate 0 the projected throughput equals the
\* current throughput for every horizon, in analyzeCapacity and in a
\* capacity_planning task whose config sets expected_growth_rate to 0.
C7_ZeroGrowthKeepsThroughput ==
  (args.growthRate = JSInt(0) /\ WellFormedPeriod) =>
    /\ fn = "analyzeCapacity" =>
         ProjectedEqualsCurrent(ret.current, ret.projected)
    /\ fn = "performCapacityPlanning" =>
         \A i \in 1..Len(ret.planning_results) :
           ProjectedEqualsCurrent(ret.planning_results[i].current_capacity,
                                  ret.planning_results[i].projected_capacity)

\* C8 (as claimed): with no task in the 7-day window the estimated response
\* time is the current average response time, a defined number.
C8_ZeroThroughputKeepsResponseTime ==
  (fn = "analyzeCapacity" /\ args.tasks = <<>> /\ WellFormedPeriod) =>
    /\ Defined(ret.projected.estimated_response_time)
    /\ ret.projected.estimated_response_time = ret.current.avg_response_time

-----------------------------------------------------------------------------
(* The aggregation functions applied to sample sets, the empty one included *)

MaxValues == 3

AggregateSampleKinds ==
  { <<"response_time", 100>>, <<"response_time", 200>>,
    <<"response_time", 300>>, <<"success_rate", 100>> }

InitAggregate ==
  /\ fn = "none"
  /\ ret = Undefined
  /\ \E m \in BoundedSeq(AggregateSampleKinds, MaxValues),
        targets \in {<<>>, <<"a1">>} :
       args = [ metrics       |-> MetricsOfKinds(m),
                values        |-> ValuesOf(MetricsOfKinds(m)),
                target_agents |-> targets ]
  /\ IdleBackend

CallMedian ==
  /\ fn = "none"
  /\ fn' = "calculateMedian"
  /\ ret' = calculateMedian(args.values)
  /\ UNCHANGED args
  /\ BackendUnchanged

CallPercentile ==
  /\ fn = "none"
  /\ fn' = "calculatePercentile"
  /\ ret' = calculatePercentile(args.values, 95)
  /\ UNCHANGED args
  /\ BackendUnchanged

CallStandardDeviation ==
  /\ fn = "none"
  /\ fn' = "calculateStandardDeviation"
  /\ ret' = calculateStandardDeviation(args.values)
  /\ UNCHANGED args
  /\ BackendUnchanged

CallAverageResponseTime ==
  /\ fn = "none"
  /\ fn' = "avgResponseTime"
  /\ ret' = AvgResponseTime(args.metrics)
  /\ UNCHANGED args
  /\ BackendUnchanged

CallDetailedMetrics ==
  /\ fn = "none"
  /\ fn' = "generateDetailedMetrics"
  /\ ret' = generateDetailedMetrics(args.metrics)
  /\ UNCHANGED args
  /\ BackendUnchanged

CallPerformanceSummary ==
  /\ fn = "none"
  /\ fn' = "calculatePerformanceSummary"
  /\ ret' = calculatePerformanceSummary(args.metrics)
  /\ UNCHANGED args
  /\ BackendUnchanged

CallPerformanceAudit ==
  /\ fn = "none"
  /\ fn' = "performPerformanceAudit"
  /\ ret' = performPerformanceAudit(args.target_agents)
  /\ UNCHANGED args
  /\ BackendUnchanged

NextAggregate ==
  \/ CallMedian
  \/ CallPercentile
  \/ CallStandardDeviation
  \/ CallAverageResponseTime
  \/ CallDetailedMetrics
  \/ CallPerformanceSummary
  \/ CallPerformanceAudit

SpecAggregate == InitAggregate /\ [][NextAggregate]_vars

C1_EmptySamplesGiveZeroOrEmpty ==
  /\ (fn \in {"calculateMedian", "calculatePercentile",
              "calculateStandardDeviation"} /\ args.values = <<>>)
       => ret = JSInt(0)
  /\ (fn = "avgResponseTime" /\ args.metrics = <<>>) => ret = JSInt(0)
  /\ (fn \in {"generateDetailedMetrics", "calculatePerformanceSummary"}
        /\ args.metrics = <<>>)
       => ret = <<>>
  /\ (fn = "performPerformanceAudit" /\ args.target_agents = <<>>)
       => (~ret.threw /\ ret.overall_score = JSInt(0))

-----------------------------------------------------------------------------
(* The POST handlers of the sentiment, recommendation and monitoring agents *)

MaxRequests   == 3
MaxTextLength == 5000

Requests == 1..MaxRequests
Handlers == <<"sentiment-analysis", "recommendation", "performance-monitor">>
TaskIds  == {"t1"}
NoTaskId == ""

\* The endpoint request r is sent to.
HandlerOf(r) == Handlers[((r - 1) % Len(Handlers)) + 1]

\* The request bodies: the text length of a sentiment request, the presence
\* of user_profile and interaction_history of a recommendation request, the
\* presence of task_type of a monitoring request, and the taskId.
Bodies ==
  [ textLength : {0, 12, MaxTextLength + 1},
    user_profile : BOOLEAN,
    interaction_history : BOOLEAN,
    task_type : BOOLEAN,
    taskId : TaskIds \cup {NoTaskId} ]

\* The validation without the limit on the text length (a mutation of the
\* code).
InvalidWithoutLengthLimit(handler, body) ==
  CASE handler = "sentiment-analysis" -> body.textLength = 0
    [] handler = "recommendation" ->
         ~body.user_profile /\ ~body.interaction_history
    [] handler = "performance-monitor" -> ~body.task_type

\* The handler's validation of the body, before its try block.
Invalid(handler, body) ==
  CASE handler = "sentiment-analysis" ->
         body.textLength = 0 \/ body.textLength > MaxTextLength
    [] handler = "recommendation" ->
         ~body.user_profile /\ ~body.interaction_history
    [] handler = "performance-monitor" -> ~body.task_type

IdleRequest ==
  [pc |-> "idle", taskId |-> NoTaskId, task |-> FALSE, work |-> "pending",
   status |-> 0]

\* const { data: agent } is declared inside the try block, so the catch
\* block's agent?.id names no variable in scope: evaluating it throws a
\* ReferenceError out of the catch block.
AgentInCatchScope == FALSE

\* An insert that overwrites the row of the same id (a mutation of the code).
UpsertTaskRow(table, id) ==
  [ table |-> [table EXCEPT ![id] = "running"], data |-> TRUE ]

\* supabase.from('agent_tasks').insert([{ id, status: 'running', ... }])
\*   .select().single(): the id is the table's key, so the insert of a used
\* id is refused and data is null.
InsertTaskRow(table, id) ==
  IF table[id] = "none"
  THEN [ table |-> [table EXCEPT ![id] = "running"], data |-> TRUE ]
  ELSE [ table |-> table, data |-> FALSE ]

\* supabase.from('agent_tasks').update({ status, ... }).eq('id', id)
UpdateTaskRow(table, id, status) ==
  IF table[id] = "none" THEN table ELSE [table EXCEPT ![id] = status]

AgentUnchanged == UNCHANGED <<deploys, agentMetricRows, sessions, now>>
StatsUnchanged == UNCHANGED <<fn, args, ret>>

Init ==
  /\ fn = "none" /\ args = <<>> /\ ret = Undefined
  /\ sessions = <<>> /\ now = 0
  /\ tasks = [t \in TaskIds |-> "none"]
  /\ reqs = [r \in Requests |-> IdleRequest]
  /\ metricRows = {}
  \* the tenant's agent of each type, if it has one
  /\ \E missing \in {{}} \cup {{Handlers[i]} : i \in 1..Len(Handlers)} :
       agents = [h \in {Handlers[i] : i \in 1..Len(Handlers)} |->
                   IF h \in missing THEN "none" ELSE "active"]
  /\ deploys = <<>>
  /\ agentMetricRows = {}
  /\ logRows = {}

\* The request arrives: validation answers 400 or the try block is entered.
Receive(r) ==
  /\ reqs[r].pc = "idle"
  /\ \E body \in Bodies :
       IF Invalid(HandlerOf(r), body)
       THEN reqs' = [reqs EXCEPT ![r].pc = "done", ![r].status = 400]
       ELSE reqs' = [reqs EXCEPT ![r].pc = "getAgent",
                                 ![r].taskId = body.taskId]
  /\ UNCHANGED <<tasks, metricRows, agents>>
  /\ AgentUnchanged /\ StatsUnchanged /\ UNCHANGED logRows

\* The agent of the handler's type is looked up: 404 when there is none.
GetAgent(r) ==
  /\ reqs[r].pc = "getAgent"
  /\ IF agents[HandlerOf(r)] = "none"
     THEN reqs' = [reqs EXCEPT ![r].pc = "done", ![r].status = 404]
     ELSE reqs' = [reqs EXCEPT ![r].pc = "createTask"]
  /\ UNCHANGED <<tasks, metricRows, agents>>
  /\ AgentUnchanged /\ StatsUnchanged /\ UNCHANGED logRows

\* if (taskId) { insert the task row with status 'running'; task = taskData }
CreateTask(r) ==
  /\ reqs[r].pc = "createTask"
  /\ IF reqs[r].taskId # NoTaskId
     THEN LET ins == InsertTaskRow(tasks, reqs[r].taskId)
          IN  /\ tasks' = ins.table
              /\ reqs' = [reqs EXCEPT ![r].pc = "work", ![r].task = ins.data]
     ELSE /\ tasks' = tasks
          /\ reqs' = [reqs EXCEPT ![r].pc = "work"]
  /\ UNCHANGED <<metricRows, agents>>
  /\ AgentUnchanged /\ StatsUnchanged /\ UNCHANGED logRows

\* analyzeSentiment / generateRecommendations / executeMonitoringTask returns.
WorkSucceeds(r) ==
  /\ reqs[r].pc = "work"
  /\ reqs' = [reqs EXCEPT ![r].pc = "updateTask", ![r].work = "ok"]
  /\ UNCHANGED <<tasks, metricRows, agents>>
  /\ AgentUnchanged /\ StatsUnchanged /\ UNCHANGED logRows

\* The work throws (the inference API fails, an unsupported type, ...).
WorkThrows(r) ==
  /\ reqs[r].pc = "work"
  /\ reqs' = [reqs EXCEPT ![r].pc = "catch", ![r].work = "threw"]
  /\ UNCHANGED <<tasks, metricRows, agents>>
  /\ AgentUnchanged /\ StatsUnchanged /\ UNCHANGED logRows

\* if (task) { update the row of id taskId to status 'completed' }
UpdateTask(r) ==
  /\ reqs[r].pc = "updateTask"
  /\ tasks' = IF reqs[r].task
              THEN UpdateTaskRow(tasks, reqs[r].taskId, "completed")
              ELSE tasks
  /\ reqs' = [reqs EXCEPT ![r].pc = "logMetrics"]
  /\ UNCHANGED <<metricRows, agents>>
  /\ AgentUnchanged /\ StatsUnchanged /\ UNCHANGED logRows

\* logMetrics(agent.id, tenantId, responseTime, true)
LogMetrics(r) ==
  /\ reqs[r].pc = "logMetrics"
  /\ metricRows' = metricRows \cup
       { [agent |-> HandlerOf(r), request |-> r, success |-> TRUE] }
  /\ reqs' = [reqs EXCEPT ![r].pc = "respond"]
  /\ UNCHANGED <<tasks, agents>>
  /\ AgentUnchanged /\ StatsUnchanged /\ UNCHANGED logRows

\* logActivity(...) and res.status(200).json(...)
Respond(r) ==
  /\ reqs[r].pc = "respond"
  /\ logRows' = logRows \cup
       { [agent |-> HandlerOf(r), request |-> r, level |-> "info"] }
  /\ reqs' = [reqs EXCEPT ![r].pc = "done", ![r].status = 200]
  /\ UNCHANGED <<tasks, metricRows, agents>>
  /\ AgentUnchanged /\ StatsUnchanged

\* The catch block: logMetrics(agent?.id, ..., false), then the update of
\* the row of id taskId to 'failed' if (taskId), then the 500 response.
\* With agent out of scope the first statement throws, the handler's promise
\* rejects and the handler sends no response.
CatchBlock(r) ==
  /\ reqs[r].pc = "catch"
  /\ IF AgentInCatchScope
     THEN /\ metricRows' = metricRows \cup
               { [agent |-> HandlerOf(r), request |-> r, success |-> FALSE] }
          /\ tasks' = IF reqs[r].taskId # NoTaskId
                      THEN UpdateTaskRow(tasks, reqs[r].taskId, "failed")
                      ELSE tasks
          /\ reqs' = [reqs EXCEPT ![r].pc = "done", ![r].status = 500]
     ELSE /\ reqs' = [reqs EXCEPT ![r].pc = "rejected"]
          /\ UNCHANGED <<tasks, metricRows>>
  /\ UNCHANGED agents
  /\ AgentUnchanged /\ StatsUnchanged /\ UNCHANGED logRows

Next ==
  \E r \in Requests :
    \/ Receive(r)
    \/ GetAgent(r)
    \/ CreateTask(r)
    \/ WorkSucceeds(r)
    \/ WorkThrows(r)
    \/ UpdateTask(r)
    \/ LogMetrics(r)
    \/ Respond(r)
    \/ CatchBlock(r)

Spec == Init /\ [][Next]_vars

Ended(r) == reqs[r].pc \in {"done", "rejected"}

\* C2 (as claimed): a task created with status 'running' has left 'running'
\* when its request has ended: it is 'completed' when the work succeeded and
\* 'failed' when the work threw.
C2_TaskLeavesRunning ==
  \A r \in Requests :
    (Ended(r) /\ reqs[r].task) =>
      /\ tasks[reqs[r].taskId] # "running"
      /\ reqs[r].work = "ok" => tasks[reqs[r].taskId] = "completed"
      /\ reqs[r].work = "threw" => tasks[reqs[r].taskId] = "failed"

\* C3: once a task is 'completed' or 'failed', no step of any request, one
\* that reuses the task's id included, changes its status.
C3_TerminalStatusIsFinal ==
  [][ \A t \in TaskIds :
        tasks[t] \in {"completed", "failed"} => tasks'[t] = tasks[t] ]_vars

\* C3's case: a task is completed and a request that reused its id, and
\* was refused the insert, has run its work and ended.
C3_Witness ==
  \E t \in TaskIds, r \in Requests :
    /\ tasks[t] = "completed"
    /\ reqs[r].taskId = t
    /\ ~reqs[r].task
    /\ reqs[r].work # "pending"
    /\ Ended(r)

\* C22 (as claimed): when the work of a POST handler threw after the agent
\* was found, the request ends answered with 500 and the failed measurement
\* of that request is recorded for the handler's agent.
C22_ThrownWorkAnswers500AndRecordsFailure ==
  \A r \in Requests :
    (Ended(r) /\ reqs[r].work = "threw") =>
      /\ reqs[r].status = 500
      /\ [agent |-> HandlerOf(r), request |-> r, success |-> FALSE]
           \in metricRows

-----------------------------------------------------------------------------
(* The agent factory: create, update, delete and the deferred deployment *)

MaxCreated == 2

AgentIds       == 1..MaxCreated
SupportedTypes == {"sentiment-analysis", "recommendation", "performance-monitor"}
AgentStatuses  == {"deploying", "active", "error", "inactive"}

\* The bodies of POST: name and type may be missing, the type unsupported.
CreateBodies == [ name : BOOLEAN, type : {"", "sentiment-analysis", "chatbot"} ]

\* The bodies of PUT, passed whole to update(): any column, status included.
UpdateBodies == { [config |-> "new"] } \cup { [status |-> s] : s \in AgentStatuses }

\* Any id that was ever inserted counts as a row: updates and inserts for a
\* deleted agent go through (a mutation of the code).
EverInserted(table, id) == table[id] # "none"

\* The row of the id exists in the agents table.
Stored(table, id) == table[id] \notin {"none", "deleted"}

\* supabase.from('agents').update({ status, ... }).eq('id', id)
UpdateAgentRow(table, id, status) ==
  IF Stored(table, id) THEN [table EXCEPT ![id] = status] ELSE table

\* The three initial metrics deployAgent inserts for the agent.
InitialMetrics(id) ==
  { [agent_id |-> id, metric_type |-> "response_time", metric_value |-> 150],
    [agent_id |-> id, metric_type |-> "success_rate", metric_value |-> 100],
    [agent_id |-> id, metric_type |-> "throughput", metric_value |-> 10] }

TaskUnchanged == UNCHANGED <<tasks, reqs, metricRows, sessions, now>>

InitAgents ==
  /\ fn = "none" /\ args = <<>> /\ ret = 0
  /\ sessions = <<>> /\ now = 0
  /\ tasks = <<>> /\ reqs = NoRequests /\ metricRows = <<>>
  /\ agents = [a \in AgentIds |-> "none"]
  /\ deploys = [a \in AgentIds |-> "none"]
  /\ agentMetricRows = {}
  /\ logRows = {}

\* POST: 400 on a missing name or type or an unsupported type; otherwise the
\* row is inserted under a fresh uuid with status 'deploying' and the
\* deployment is scheduled with setTimeout.
CreateAgent ==
  \E body \in CreateBodies :
    IF ~body.name \/ body.type = "" \/ body.type \notin SupportedTypes
    THEN /\ ret' = 400
         /\ UNCHANGED <<agents, deploys, logRows>>
    ELSE /\ \E a \in AgentIds :
              /\ agents[a] = "none"
              /\ \A b \in AgentIds : b < a => agents[b] # "none"
              /\ agents' = [agents EXCEPT ![a] = "deploying"]
              /\ deploys' = [deploys EXCEPT ![a] = "timer"]
              /\ logRows' = logRows \cup
                   { [agent_id |-> a, level |-> "info", message |-> "created"] }
         /\ ret' = 201

HandleCreateAgent ==
  /\ CreateAgent
  /\ UNCHANGED <<fn, args, agentMetricRows>> /\ TaskUnchanged

\* PUT: update(updates).eq('id', agentId).select().single().
HandleUpdateAgent ==
  /\ \E a \in AgentIds, updates \in UpdateBodies :
       IF Stored(agents, a)
       THEN /\ agents' = IF "status" \in DOMAIN updates
                         THEN UpdateAgentRow(agents, a, updates.status)
                         ELSE agents
            /\ logRows' = logRows \cup
                 { [agent_id |-> a, level |-> "info", message |-> "updated"] }
            /\ ret' = 200
       ELSE /\ agents' = agents
            /\ logRows' = logRows
            /\ ret' = 500
  /\ UNCHANGED <<fn, args, deploys, agentMetricRows>> /\ TaskUnchanged

\* DELETE: the row is deleted; 200 whether or not there was one, and a log
\* row when there was one.
HandleDeleteAgent ==
  /\ \E a \in AgentIds :
       /\ agents[a] # "none"
       /\ agents' = [agents EXCEPT ![a] = "deleted"]
       /\ logRows' = IF Stored(agents, a)
                     THEN logRows \cup
                            { [agent_id |-> a, level |-> "info",
                               message |-> "deleted"] }
                     ELSE logRows
       /\ ret' = 200
  /\ UNCHANGED <<fn, args, deploys, agentMetricRows>> /\ TaskUnchanged

\* The timer of handleCreateAgent fires and calls deployAgent.
DeployTimerFires(a) ==
  /\ deploys[a] = "timer"
  /\ deploys' = [deploys EXCEPT ![a] = "delay"]
  /\ UNCHANGED <<fn, args, ret, agents, agentMetricRows>> /\ TaskUnchanged /\ UNCHANGED logRows

\* The simulated deployment delay elapses.
DeployDelayElapses(a) ==
  /\ deploys[a] = "delay"
  /\ deploys' = [deploys EXCEPT ![a] = "update"]
  /\ UNCHANGED <<fn, args, ret, agents, agentMetricRows>> /\ TaskUnchanged /\ UNCHANGED logRows

\* update({ status: 'active' }).eq('id', agentId): the row, if there still
\* is one, becomes active.
DeployActivates(a) ==
  /\ deploys[a] = "update"
  /\ agents' = UpdateAgentRow(agents, a, "active")
  /\ deploys' = [deploys EXCEPT ![a] = "insert"]
  /\ UNCHANGED <<fn, args, ret, agentMetricRows>> /\ TaskUnchanged /\ UNCHANGED logRows

\* The update resolves with an error: the result is not inspected, so the
\* deployment goes on with the status unchanged.
DeployUpdateRefused(a) ==
  /\ deploys[a] = "update"
  /\ deploys' = [deploys EXCEPT ![a] = "insert"]
  /\ UNCHANGED <<fn, args, ret, agents, agentMetricRows>> /\ TaskUnchanged /\ UNCHANGED logRows

\* insert(initialMetrics) into agent_metrics; the rows reference the agent,
\* so they are stored only while its row exists.
DeployInsertsMetrics(a) ==
  /\ deploys[a] = "insert"
  /\ agentMetricRows' = IF Stored(agents, a)
                        THEN agentMetricRows \cup InitialMetrics(a)
                        ELSE agentMetricRows
  /\ deploys' = [deploys EXCEPT ![a] = "done"]
  /\ UNCHANGED <<fn, args, ret, agents>> /\ TaskUnchanged /\ UNCHANGED logRows

\* An awaited call of the try block rejects.
DeployThrows(a) ==
  /\ deploys[a] \in {"update", "insert"}
  /\ deploys' = [deploys EXCEPT ![a] = "catch"]
  /\ UNCHANGED <<fn, args, ret, agents, agentMetricRows>> /\ TaskUnchanged /\ UNCHANGED logRows

\* catch: update({ status: 'error' }).eq('id', agentId)
DeployMarksError(a) ==
  /\ deploys[a] = "catch"
  /\ agents' = UpdateAgentRow(agents, a, "error")
  /\ deploys' = [deploys EXCEPT ![a] = "done"]
  /\ UNCHANGED <<fn, args, ret, agentMetricRows>> /\ TaskUnchanged /\ UNCHANGED logRows

NextAgents ==
  \/ HandleCreateAgent
  \/ HandleUpdateAgent
  \/ HandleDeleteAgent
  \/ \E a \in AgentIds :
       \/ DeployTimerFires(a)
       \/ DeployDelayElapses(a)
       \/ DeployActivates(a)
       \/ DeployUpdateRefused(a)
       \/ DeployInsertsMetrics(a)
       \/ DeployThrows(a)
       \/ DeployMarksError(a)

SpecAgents == InitAgents /\ [][NextAgents]_vars

\* C4 (as claimed): an agent that is 'active' or 'error' never goes back to
\* 'deploying'.
C4_NeverBackToDeploying ==
  [][ \A a \in AgentIds :
        agents[a] \in {"active", "error"} => agents'[a] # "deploying" ]_vars

-----------------------------------------------------------------------------
(* calculatePercentile on sample sets long enough for the 95th percentile to
   fall below the maximum *)

MaxPercentileLen == 21

\* n values in the order (a*i + b) mod m: rising, falling or scattered, with
\* repeated values when m < n.
Scrambled(n, a, b, m) == [i \in 1..n |-> JSInt((a * i + b) % m)]

InitPercentile ==
  /\ fn = "none"
  /\ ret = Undefined
  /\ \E n \in 1..MaxPercentileLen, a \in {1, 5, 22}, b \in {0, 3}, m \in {7, 23} :
       args = [values |-> Scrambled(n, a, b, m)]
  /\ IdleBackend

CallPercentile95 ==
  /\ fn = "none"
  /\ fn' = "calculatePercentile"
  /\ ret' = calculatePercentile(args.values, 95)
  /\ UNCHANGED args
  /\ BackendUnchanged

NextPercentile == CallPercentile95

SpecPercentile == InitPercentile /\ [][NextPercentile]_vars

\* The rank ceil(0.95 * n): the least k with k >= 0.95 * n.
Rank95(n) == CHOOSE k \in 0..n : 100 * k >= 95 * n /\ 100 * (k - 1) < 95 * n

\* v is the k-th smallest of vals, counted from 1: fewer than k values are
\* below v and at least k values are at most v.
IsKthSmallest(v, vals, k) ==
  /\ \E i \in 1..Len(vals) : vals[i] = v
  /\ Cardinality({i \in 1..Len(vals) : JSGt(v, vals[i])}) < k
  /\ Cardinality({i \in 1..Len(vals) : JSGe(v, vals[i])}) >= k

\* C11: for a non-empty list of n values, calculatePercentile(values, 95)
\* returns the ceil(0.95 * n)-th smallest value, counted from 1, and that
\* rank lies in 1..n.
C11_PercentileIsOrderStatistic ==
  (fn = "calculatePercentile" /\ Len(args.values) > 0) =>
    /\ Rank95(Len(args.values)) \in 1..Len(args.values)
    /\ IsKthSmallest(ret, args.values, Rank95(Len(args.values)))

\* C11's case: a list long enough that the 95th percentile is not its
\* maximum.
C11_Witness ==
  /\ fn = "calculatePercentile"
  /\ Len(args.values) >= 20
  /\ \E i \in 1..Len(args.values) : JSGt(args.values[i], ret)

-----------------------------------------------------------------------------
(* calculateMedian and calculatePercentile on a list and on a reordering of
   the same list *)

MaxShuffleLen == 4

\* w holds the values of v, each as often as v holds it.
IsPermutation(v, w) ==
  /\ Len(v) = Len(w)
  /\ \A i \in 1..Len(v) :
       Cardinality({j \in 1..Len(v) : v[j] = v[i]}) =
       Cardinality({j \in 1..Len(w) : w[j] = v[i]})

\* const sorted = [...values].sort((a, b) => a - b): the spread makes a new
\* array and sort() orders that one in place; the two arrays afterwards.
SpreadThenSort(values) ==
  [sorted |-> SortAscending(values), values |-> values]

InitShuffle ==
  /\ fn = "none"
  /\ ret = Undefined
  /\ \E v \in BoundedSeq({JSInt(1), JSInt(2), JSInt(3)}, MaxShuffleLen) :
       /\ v # <<>>
       /\ \E w \in [1..Len(v) -> {JSInt(1), JSInt(2), JSInt(3)}] :
            /\ IsPermutation(v, w)
            /\ args = [values |-> v, shuffled |-> w]
  /\ IdleBackend

CallMedianOnBoth ==
  /\ fn = "none"
  /\ fn' = "calculateMedian"
  /\ ret' = [ of_values      |-> calculateMedian(args.values),
              of_shuffled    |-> calculateMedian(args.shuffled),
              values_after   |-> SpreadThenSort(args.values).values,
              shuffled_after |-> SpreadThenSort(args.shuffled).values ]
  /\ UNCHANGED args
  /\ BackendUnchanged

CallPercentileOnBoth ==
  /\ fn = "none"
  /\ fn' = "calculatePercentile"
  /\ \E percentile \in {50, 95} :
       ret' = [ of_values      |-> calculatePercentile(args.values, percentile),
                of_shuffled    |-> calculatePercentile(args.shuffled, percentile),
                values_after   |-> SpreadThenSort(args.values).values,
                shuffled_after |-> SpreadThenSort(args.shuffled).values ]
  /\ UNCHANGED args
  /\ BackendUnchanged

NextShuffle ==
  \/ CallMedianOnBoth
  \/ CallPercentileOnBoth

SpecShuffle == InitShuffle /\ [][NextShuffle]_vars

\* C12: calculateMedian and calculatePercentile return the same result for
\* every reordering of the same non-empty list, and leave the list passed to
\* them as it was.
C12_OrderDoesNotMatter ==
  fn # "none" =>
    /\ ret.of_values = ret.of_shuffled
    /\ ret.values_after = args.values
    /\ ret.shuffled_after = args.shuffled

\* C12's case: the median of a list that is not in ascending order and of a
\* different ordering of it.
C12_Witness ==
  /\ fn = "calculateMedian"
  /\ args.values # args.shuffled
  /\ args.values # SortAscending(args.values)
  /\ args.shuffled # SortAscending(args.shuffled)

-----------------------------------------------------------------------------
(* The health score against the score of a neighbouring input *)

\* The score with the agent at position i active, the rest as given.
ScoreWithAgentActive(i) ==
  calculateSystemHealth([args.agents EXCEPT ![i].status = "active"],
                        args.metrics, args.tasks).score

\* The score with the task at position i completed, the rest as given.
ScoreWithTaskCompleted(i) ==
  calculateSystemHealth(args.agents, args.metrics,
                        [args.tasks EXCEPT ![i].status = "completed"]).score

\* C13: with the agent total, the task total and the samples fixed, the
\* health score does not decrease when one more agent is active or one more
\* task is completed.
C13_ScoreIsMonotone ==
  HealthReturned =>
    /\ \A i \in 1..Len(args.agents) :
         args.agents[i].status # "active" =>
           JSGe(ScoreWithAgentActive(i), ret.score)
    /\ \A i \in 1..Len(args.tasks) :
         args.tasks[i].status # "completed" =>
           JSGe(ScoreWithTaskCompleted(i), ret.score)

\* C13's case: a score that one more active agent raises and one more
\* completed task raises.
C13_Witness ==
  /\ HealthReturned
  /\ \E i \in 1..Len(args.agents) :
       /\ args.agents[i].status # "active"
       /\ JSGt(ScoreWithAgentActive(i), ret.score)
  /\ \E i \in 1..Len(args.tasks) :
       /\ args.tasks[i].status # "completed"
       /\ JSGt(ScoreWithTaskCompleted(i), ret.score)

-----------------------------------------------------------------------------
(* generatePerformanceReport up to its trend section, with the clock that
   Date.now() reads.  Times are in ticks of one twentieth of the timeframe. *)

MaxClockAdvance == 2
MaxTrendRecords == 2

Intervals == 10

\* The timestamps of the stored rows, around the start and the end of the
\* window of a report requested at time 30 for a timeframe of 20.
TrendTimes == {9, 10, 11, 20, 29, 30}

\* Stored rows in ascending order of timestamp.
RowsAt(times) ==
  [i \in 1..Len(times) |->
     [id |-> i, metric_type |-> "response_time", metric_value |-> JSInt(100),
      timestamp |-> times[i]]]

Ascending(times) ==
  \A i \in 1..Len(times) - 1 : times[i] <= times[i + 1]

InitTrends ==
  /\ fn = "none"
  /\ ret = Undefined
  /\ \E m \in BoundedSeq(TrendTimes, MaxTrendRecords),
        t \in BoundedSeq(TrendTimes, 1) :
       /\ Ascending(m)
       /\ args = [ now |-> 30, timeframeDuration |-> 20,
                   metrics |-> RowsAt(m), tasks |-> RowsAt(t) ]
  /\ IdleBackend

\* Time passes between two steps of the report.
ClockAdvances ==
  /\ fn # "generateSystemTrends"
  /\ args.now < 30 + MaxClockAdvance
  /\ args' = [args EXCEPT !.now = @ + 1]
  /\ UNCHANGED <<fn, ret>>
  /\ BackendUnchanged

\* const startTime = new Date(Date.now() - timeframeDuration)
ReportStarts ==
  /\ fn = "none"
  /\ fn' = "query"
  /\ ret' = [ startTime |-> args.now - args.timeframeDuration,
              metrics |-> <<>>, tasks |-> <<>>, trends |-> <<>> ]
  /\ UNCHANGED args
  /\ BackendUnchanged

\* The awaited queries: the rows with a timestamp from startTime on.
ReportQueries ==
  /\ fn = "query"
  /\ fn' = "trends"
  /\ LET FromStart(row) == row.timestamp >= ret.startTime
     IN  ret' = [ret EXCEPT !.metrics = SelectSeq(args.metrics, FromStart),
                            !.tasks   = SelectSeq(args.tasks, FromStart)]
  /\ UNCHANGED args
  /\ BackendUnchanged

\* One iteration of the loop of generateSystemTrends: the interval is placed
\* by a fresh reading of Date.now().
TrendInterval ==
  /\ fn = "trends"
  /\ LET i                == Len(ret.trends)
         intervalDuration == args.timeframeDuration \div Intervals
         intervalStart    == args.now - args.timeframeDuration
                               + (i * intervalDuration)
         intervalEnd      == intervalStart + intervalDuration
         Within(row)      == /\ row.timestamp >= intervalStart
                             /\ row.timestamp < intervalEnd
         intervalMetrics  == SelectSeq(ret.metrics, Within)
         intervalTasks    == SelectSeq(ret.tasks, Within)
     IN  /\ ret' = [ret EXCEPT !.trends = Append(@,
                      [ interval          |-> i + 1,
                        start_time        |-> intervalStart,
                        end_time          |-> intervalEnd,
                        metrics_count     |-> Len(intervalMetrics),
                        tasks_count       |-> Len(intervalTasks),
                        avg_response_time |-> AvgResponseTime(intervalMetrics) ])]
         /\ fn' = IF i + 1 = Intervals THEN "generateSystemTrends" ELSE fn
  /\ UNCHANGED args
  /\ BackendUnchanged

NextTrends ==
  \/ ClockAdvances
  \/ ReportStarts
  \/ ReportQueries
  \/ TrendInterval

SpecTrends == InitTrends /\ [][NextTrends]_vars

\* C14 (as claimed): the trends are exactly 10 buckets of equal length that
\* tile the requested window, which starts at startTime, without gap or
\* overlap, and the bucket counts sum to the number of the records fetched
\* for the window.
C14_BucketsTileTheWindow ==
  fn = "generateSystemTrends" =>
    LET trends == ret.trends
        MetricsCounted == Sum([i \in 1..Len(trends) |-> JSInt(trends[i].metrics_count)])
        TasksCounted   == Sum([i \in 1..Len(trends) |-> JSInt(trends[i].tasks_count)])
        InWindow(row)  == /\ row.timestamp >= ret.startTime
                          /\ row.timestamp < ret.startTime + args.timeframeDuration
    IN  /\ Len(trends) = 10
        /\ \A i \in 1..Len(trends) :
             trends[i].end_time - trends[i].start_time =
               args.timeframeDuration \div 10
        /\ trends[1].start_time = ret.startTime
        /\ \A i \in 1..Len(trends) - 1 :
             trends[i + 1].start_time = trends[i].end_time
        /\ MetricsCounted = JSInt(Len(SelectSeq(ret.metrics, InWindow)))
        /\ TasksCounted = JSInt(Len(SelectSeq(ret.tasks, InWindow)))

-----------------------------------------------------------------------------
(* generateErrorAnalysis.  A message is the sequence of its ':' separators
   and the texts between them; none of the error types used is an integer
   index, so Object.entries lists the types in order of first occurrence. *)

MaxRepeats == 1

\* The text before the first ':' of the message: log.message.split(':')[0].
FirstSegment(message) ==
  IF message = <<>> \/ Head(message) = ":" THEN "" ELSE Head(message)

\* log.message.split(':')[0] || 'Unknown'
ErrorTypeOf(message) ==
  IF FirstSegment(message) = "" THEN "Unknown" ELSE FirstSegment(message)

\* The properties every object literal {} inherits from Object.prototype:
\* acc[key] reads them although acc has no such key of its own.
InheritedKeys == {"constructor", "toString", "valueOf", "hasOwnProperty"}

\* value + 1, for value a number or a string: a string is extended by "1".
\* A string is [k |-> "str", n |-> the number of "1" appended to the source
\* text of the inherited function].
PlusOne(value) ==
  IF value.k = "str" THEN [value EXCEPT !.n = @ + 1] ELSE JSAdd(value, JSInt(1))

\* acc[key] = (acc[key] || 0) + 1, acc an object literal held as the
\* sequence of its own entries in insertion order.
CountUp(acc, key) ==
  LET Own == {i \in 1..Len(acc) : acc[i].type = key}
  IN  IF Own # {}
      THEN [i \in 1..Len(acc) |->
              IF i \in Own
              THEN [acc[i] EXCEPT !.count = PlusOne(@)]
              ELSE acc[i]]
      ELSE Append(acc,
             [type |-> key,
              count |-> IF key \in InheritedKeys
                        THEN PlusOne([k |-> "str", n |-> 0, d |-> 1])
                        ELSE JSInt(1)])

RECURSIVE CountByFrom(_, _, _)
\* errorLogs.reduce((acc, log) => { acc[key]++ ... }, {}) with key the
\* agent_id ("agent") or the error type ("type") of the log.
CountByFrom(errorLogs, by, i) ==
  IF i = 0 THEN <<>>
  ELSE CountUp(CountByFrom(errorLogs, by, i - 1),
               IF by = "agent" THEN errorLogs[i].agent_id
               ELSE ErrorTypeOf(errorLogs[i].message))

\* The comparator ([,a], [,b]) => b - a tells that a goes after b: b - a is
\* positive.  With a count that is not a number b - a is NaN, which sort()
\* reads as 0.
GoesAfter(a, b) ==
  IsNum(a.count) /\ IsNum(b.count) /\ JSGt(b.count, a.count)

RECURSIVE InsertByCount(_, _)
InsertByCount(s, e) ==
  IF s = <<>> THEN <<e>>
  ELSE IF GoesAfter(Head(s), e) THEN <<e>> \o s
  ELSE <<Head(s)>> \o InsertByCount(Tail(s), e)

RECURSIVE SortByCountFrom(_, _)
\* Object.entries(commonErrors).sort(([,a], [,b]) => b - a): a stable sort.
SortByCountFrom(entries, i) ==
  IF i = 0 THEN <<>>
  ELSE InsertByCount(SortByCountFrom(entries, i - 1), entries[i])

generateErrorAnalysis(logs, taskList) ==
  LET IsError(l)   == l.level = "error"
      IsFailed(t)  == t.status = "failed"
      errorLogs    == SelectSeq(logs, IsError)
      failedTasks  == SelectSeq(taskList, IsFailed)
      commonErrors == CountByFrom(errorLogs, "type", Len(errorLogs))
      sorted       == SortByCountFrom(commonErrors, Len(commonErrors))
  IN  [ total_errors       |-> Len(errorLogs),
        failed_tasks       |-> Len(failedTasks),
        errors_by_agent    |-> CountByFrom(errorLogs, "agent", Len(errorLogs)),
        common_error_types |-> SubSeq(sorted, 1, IF Len(sorted) < 5
                                                 THEN Len(sorted) ELSE 5) ]

\* The messages logged: two of one type, one without ':', one with two ':',
\* one with nothing before its ':', and one whose type is the name of an
\* inherited property.
ErrorMessages ==
  << <<"constructor", ":", "is not a function">>,
     <<"Database error">>,
     <<"Auth", ":", "denied", ":", "expired">>,
     <<":", "no type">>,
     <<"Rate limit", ":", "exceeded">>,
     <<"Parse", ":", "bad json">>,
     <<"Model", ":", "loading">>,
     <<"Timeout", ":", "after 30s">>,
     <<"Timeout", ":", "after 60s">> >>

RECURSIVE LogsFrom(_, _)
\* The logs: message i logged repeats[i] times at level error.
LogsFrom(repeats, i) ==
  IF i = 0 THEN <<>>
  ELSE LogsFrom(repeats, i - 1) \o
       [j \in 1..repeats[i] |->
          [level |-> "error", agent_id |-> "a1", message |-> ErrorMessages[i]]]

InitErrorAnalysis ==
  /\ fn = "none"
  /\ ret = Undefined
  /\ \E repeats \in [1..Len(ErrorMessages) -> 0..MaxRepeats],
        info \in 0..1, failed \in 0..1 :
       args = [ logs  |-> [j \in 1..info |->
                             [level |-> "info", agent_id |-> "a2",
                              message |-> <<"Timeout", ":", "recovered">>]]
                          \o LogsFrom(repeats, Len(ErrorMessages)),
                tasks |-> [j \in 1..failed |-> [status |-> "failed"]] ]
  /\ IdleBackend

CallErrorAnalysis ==
  /\ fn = "none"
  /\ fn' = "generateErrorAnalysis"
  /\ ret' = generateErrorAnalysis(args.logs, args.tasks)
  /\ UNCHANGED args
  /\ BackendUnchanged

NextErrorAnalysis == CallErrorAnalysis

SpecErrorAnalysis == InitErrorAnalysis /\ [][NextErrorAnalysis]_vars

\* C15 (as claimed): common_error_types lists at most 5 error types, each
\* the text before the first ':' of an error message ('Unknown' for an empty
\* one) with the number of error logs of that type, in non-increasing order
\* of count, and no type left out has a higher count than a listed one.
C15_TopFiveErrorTypes ==
  fn = "generateErrorAnalysis" =>
    LET listed == ret.common_error_types
        Errors == {i \in 1..Len(args.logs) : args.logs[i].level = "error"}
        Count(type) ==
          Cardinality({i \in Errors : ErrorTypeOf(args.logs[i].message) = type})
        Types  == {ErrorTypeOf(args.logs[i].message) : i \in Errors}
        Listed == {listed[i].type : i \in 1..Len(listed)}
    IN  /\ Len(listed) <= 5
        /\ Listed \subseteq Types
        /\ \A i \in 1..Len(listed) : listed[i].count = JSInt(Count(listed[i].type))
        /\ \A i \in 1..Len(listed) - 1 :
             Count(listed[i].type) >= Count(listed[i + 1].type)
        /\ \A t \in Types \ Listed, u \in Listed : Count(t) <= Count(u)

-----------------------------------------------------------------------------
(* generatePerformanceRecommendations *)

\* The recommendations in the order pushed; of each, the priority, category
\* and title (the description and the actions are fixed texts around the
\* same numbers).
generatePerformanceRecommendations(agentList, metrics, taskList, logs) ==
  LET avgResponseTime == AvgResponseTime(metrics)
      IsErrorLog(l)   == l.level = "error"
      errorRate       == JSDiv(JSInt(Len(SelectSeq(logs, IsErrorLog))),
                               JSInt(Max(Len(logs), 1)))
      NotActive(a)    == a.status # "active"
      inactiveAgents  == Len(SelectSeq(agentList, NotActive))
  IN  (IF JSGt(avgResponseTime, JSInt(1000))
       THEN << [priority |-> "high", category |-> "performance",
                title |-> "High Response Times Detected"] >>
       ELSE <<>>)
      \o
      (IF JSGt(errorRate, Num(5, 100))
       THEN << [priority |-> "high", category |-> "reliability",
                title |-> "High Error Rate Detected"] >>
       ELSE <<>>)
      \o
      (IF inactiveAgents > 0
       THEN << [priority |-> "medium", category |-> "availability",
                title |-> "Inactive Agents Found"] >>
       ELSE <<>>)

\* Response times at and around the 1000 ms threshold.
RecommendationSampleKinds ==
  { <<"response_time", 150>>, <<"response_time", 1000>>,
    <<"response_time", 2000>>, <<"success_rate", 100>> }

\* total logs of which the first errors are at level error: 1 of 20 is the
\* 5% of the threshold.
LogsOf(total, errors) ==
  [i \in 1..total |-> [level |-> IF i <= errors THEN "error" ELSE "info"]]

InitRecommendations ==
  /\ fn = "none"
  /\ ret = Undefined
  /\ \E a \in BoundedSeq({"active", "inactive", "error", "deploying"}, MaxAgents),
        m \in BoundedSeq(RecommendationSampleKinds, MaxHealthSamples),
        total \in {0, 1, 20}, errors \in 0..2 :
       /\ errors <= total
       /\ args = [ agents  |-> WithStatus(a),
                   metrics |-> MetricsOfKinds(m),
                   tasks   |-> <<>>,
                   logs    |-> LogsOf(total, errors) ]
  /\ IdleBackend

CallPerformanceRecommendations ==
  /\ fn = "none"
  /\ fn' = "generatePerformanceRecommendations"
  /\ ret' = generatePerformanceRecommendations(args.agents, args.metrics,
                                               args.tasks, args.logs)
  /\ UNCHANGED args
  /\ BackendUnchanged

NextRecommendations == CallPerformanceRecommendations

SpecRecommendations == InitRecommendations /\ [][NextRecommendations]_vars

\* C16 (as claimed): the recommendations are exactly those whose rule fires:
\* high/performance iff the average response time is above 1000 ms,
\* high/reliability iff the error rate is above 5%, medium/availability iff
\* some agent has status 'inactive'; none when no rule fires.
C16_RecommendationsAreTheFiredRules ==
  fn = "generatePerformanceRecommendations" =>
    LET Given(priority, category) ==
          \E i \in 1..Len(ret) :
            ret[i].priority = priority /\ ret[i].category = category
        Errors == Cardinality({i \in 1..Len(args.logs) :
                                 args.logs[i].level = "error"})
        Slow     == JSGt(AvgResponseTime(args.metrics), JSInt(1000))
        Failing  == 100 * Errors > 5 * Len(args.logs)
        Inactive == \E i \in 1..Len(args.agents) :
                      args.agents[i].status = "inactive"
        Fired == (IF Slow THEN 1 ELSE 0) + (IF Failing THEN 1 ELSE 0)
                   + (IF Inactive THEN 1 ELSE 0)
    IN  /\ Given("high", "performance") <=> Slow
        /\ Given("high", "reliability") <=> Failing
        /\ Given("medium", "availability") <=> Inactive
        /\ Len(ret) = Fired

-----------------------------------------------------------------------------
(* generateScalingTimeline over projection horizons in days *)

MaxHorizonDays == 100

InitTimeline ==
  /\ fn = "none"
  /\ ret = Undefined
  /\ \E projectionDays \in {JSInt(d) : d \in 0..MaxHorizonDays}
                             \cup {Num(1, 2), Num(27, 2), NaN},
        growthRate \in GrowthRates :
       args = [projectionDays |-> projectionDays, growthRate |-> growthRate]
  /\ IdleBackend

CallScalingTimeline ==
  /\ fn = "none"
  /\ fn' = "generateScalingTimeline"
  /\ ret' = generateScalingTimeline(args.projectionDays, args.growthRate)
  /\ UNCHANGED args
  /\ BackendUnchanged

NextTimeline == CallScalingTimeline

SpecTimeline == InitTimeline /\ [][NextTimeline]_vars

\* C17: the timeline has exactly one milestone for each of the checkpoints
\* 7, 14, 30, 60 and 90 days that is at most the projection horizon, in
\* ascending order of day, and no other milestone.
C17_MilestonesAreTheCheckpointsInHorizon ==
  fn = "generateScalingTimeline" =>
    LET Due == {c \in {7, 14, 30, 60, 90} :
                  /\ IsNum(args.projectionDays)
                  /\ c * args.projectionDays.d <= args.projectionDays.n}
    IN  /\ {ret[i].day : i \in 1..Len(ret)} = Due
        /\ Len(ret) = Cardinality(Due)
        /\ \A i \in 1..Len(ret) - 1 : ret[i].day < ret[i + 1].day

\* C17's case: a horizon that is itself a checkpoint, with later checkpoints
\* beyond it.
C17_Witness ==
  /\ fn = "generateScalingTimeline"
  /\ args.projectionDays = JSInt(30)
  /\ Len(ret) = 3

-----------------------------------------------------------------------------
(* The two copies of parseTimeframe on short strings, well formed or not *)

MaxTimeframeLen == 3

\* DatabaseUtils.parseTimeframe, in hours like ParseTimeframeHours.
DatabaseUtilsParseTimeframeHours(timeframe) ==
  LET n     == Len(timeframe)
      unit  == IF n = 0 THEN "" ELSE timeframe[n]
      value == ParseInt(IF n = 0 THEN <<>> ELSE SubSeq(timeframe, 1, n - 1))
  IN  CASE unit = "h" -> JSMul(value, JSInt(3600000 \div MsPerHour))
        [] unit = "d" -> JSMul(value, JSInt(86400000 \div MsPerHour))
        [] unit = "w" -> JSMul(value, JSInt(604800000 \div MsPerHour))
        [] OTHER      -> JSInt(86400000 \div MsPerHour)

\* The characters of the timeframes tried: digits, the three units, a
\* letter that is no unit, a blank, a sign and a decimal point.
TimeframeChars == {"0", "1", "2", "h", "d", "w", "a", " ", "-", "."}

InitTimeframe ==
  /\ fn = "none"
  /\ ret = Undefined
  /\ \E timeframe \in BoundedSeq(TimeframeChars, MaxTimeframeLen) :
       args = [timeframe |-> timeframe]
  /\ IdleBackend

CallParseTimeframe ==
  /\ fn = "none"
  /\ fn' = "parseTimeframe"
  /\ ret' = [performance_monitor |-> ParseTimeframeHours(args.timeframe)]
  /\ UNCHANGED args
  /\ BackendUnchanged

CallDatabaseUtilsParseTimeframe ==
  /\ fn = "parseTimeframe"
  /\ fn' = "DatabaseUtils.parseTimeframe"
  /\ ret' = [ performance_monitor |-> ret.performance_monitor,
              database_utils |->
                DatabaseUtilsParseTimeframeHours(args.timeframe) ]
  /\ UNCHANGED args
  /\ BackendUnchanged

NextTimeframe ==
  \/ CallParseTimeframe
  \/ CallDatabaseUtilsParseTimeframe

SpecTimeframe == InitTimeframe /\ [][NextTimeframe]_vars

\* C18 (as claimed): a timeframe of digits followed by h, d or w is that
\* many hours, days or weeks; every other string is the 24-hour default,
\* never an undefined duration; and the two copies agree.
C18_MalformedTimeframeIsDefault ==
  fn = "DatabaseUtils.parseTimeframe" =>
    LET tf == args.timeframe
        n  == Len(tf)
        WellFormed == /\ n >= 2
                      /\ tf[n] \in {"h", "d", "w"}
                      /\ \A i \in 1..n - 1 : tf[i] \in Digits
        HoursPerUnit == CASE tf[n] = "h" -> 1 [] tf[n] = "d" -> 24
                          [] tf[n] = "w" -> 168
    IN  /\ ret.performance_monitor = ret.database_utils
        /\ IsNum(ret.performance_monitor)
        /\ WellFormed =>
             ret.performance_monitor =
               JSMul(ParseInt(SubSeq(tf, 1, n - 1)), JSInt(HoursPerUnit))
        /\ ~WellFormed => ret.performance_monitor = JSInt(24)

-----------------------------------------------------------------------------
(* The performance monitor on a store shared by two tenants: the report
   endpoint and the monitoring tasks.  The tables are sequences of rows;
   every row of the time windows queried is in the tables. *)

MaxMonitorPosts == 2

Tenants == {"tenantA", "tenantB"}

\* Each tenant has its performance monitor and one agent that does work.
AgentTable ==
  << [id |-> "monitorA", tenant_id |-> "tenantA", type |-> "performance-monitor",
      status |-> "active"],
     [id |-> "monitorB", tenant_id |-> "tenantB", type |-> "performance-monitor",
      status |-> "active"],
     [id |-> "workerA", tenant_id |-> "tenantA", type |-> "sentiment-analysis",
      status |-> "active"],
     [id |-> "workerB", tenant_id |-> "tenantB", type |-> "sentiment-analysis",
      status |-> "error"] >>

AgentIdsOf(table) == {table[i].id : i \in 1..Len(table)}

\* The response times an agent has logged: none, two alike, or five alike
\* and one outlier.
ResponseTimeLogs == { <<>>, <<200, 200>>, <<20, 20, 20, 20, 20, 50>> }

MetricRowsOf(agentId, tenantId, values) ==
  [i \in 1..Len(values) |->
     [agent_id |-> agentId, tenant_id |-> tenantId,
      metric_type |-> "response_time", metric_value |-> JSInt(values[i])]]

TaskRowsOf(agentId, tenantId, n) ==
  [i \in 1..n |-> [agent_id |-> agentId, tenant_id |-> tenantId,
                   status |-> "completed"]]

\* The serial id column: the position of the row in its table.
WithIds(rows) ==
  [i \in 1..Len(rows) |->
     [id |-> i, agent_id |-> rows[i].agent_id, tenant_id |-> rows[i].tenant_id,
      metric_type |-> rows[i].metric_type,
      metric_value |-> rows[i].metric_value]]

\* The calls made on the supabase client, in order: the verb, the table
\* and, for an insert, the rows.
SelectFrom(table) == [verb |-> "select", table |-> table, rows |-> <<>>]
InsertInto(table, rows) == [verb |-> "insert", table |-> table, rows |-> rows]

RECURSIVE StoreAfter(_, _, _)
\* The tables after the calls from the i-th on: a select leaves them as
\* they are, an insert appends its rows to its table.
StoreAfter(store, operations, i) ==
  IF i > Len(operations) THEN store
  ELSE LET op == operations[i]
           next == IF op.verb = "insert"
                   THEN [store EXCEPT ![op.table] = @ \o op.rows]
                   ELSE store
       IN  StoreAfter(next, operations, i + 1)

\* The report logging its own metrics as the POST handlers do (a mutation
\* of the code).
ReportOperationsWithMetrics(tenantId) ==
  << SelectFrom("agents"), SelectFrom("agent_metrics"), SelectFrom("agent_tasks"),
     SelectFrom("agent_logs"),
     InsertInto("agent_metrics",
             MetricRowsOf("monitorA", tenantId, <<20>>)) >>

\* generatePerformanceReport: the four queries.
ReportOperations(tenantId) ==
  << SelectFrom("agents"), SelectFrom("agent_metrics"), SelectFrom("agent_tasks"),
     SelectFrom("agent_logs") >>

\* logMetrics(agentId, tenantId, responseTime, true)
LoggedRows(agentId, tenantId) ==
  << [agent_id |-> agentId, tenant_id |-> tenantId,
      metric_type |-> "response_time", metric_value |-> JSInt(20)],
     [agent_id |-> agentId, tenant_id |-> tenantId,
      metric_type |-> "success_rate", metric_value |-> JSInt(100)] >>

\* handleMonitoringTask without taskId: the agent lookup, the queries of the
\* task and, when the task returned, logMetrics and logActivity.  When the
\* task threw, the catch block fails on agent?.id before it writes.
MonitoringOperations(tenantId, agentId, task_type, returned) ==
  << SelectFrom("agents"), SelectFrom("agent_metrics"), SelectFrom("agent_tasks") >>
  \o (IF returned
      THEN << InsertInto("agent_metrics", LoggedRows(agentId, tenantId)),
              InsertInto("agent_logs",
                      << [agent_id |-> agentId, tenant_id |-> tenantId,
                          level |-> "info",
                          message |-> <<"Executed monitoring task", ":",
                                        task_type>>] >>) >>
      ELSE <<>>)

\* .eq('agent_id', agentId): the rows of a table by agent id, whatever
\* their tenant.
ByAgent(rows, agentTable) ==
  [a \in AgentIdsOf(agentTable) |->
     LET OfAgent(row) == row.agent_id = a IN SelectSeq(rows, OfAgent)]

\* .eq('tenant_id', tenantId)
OfTenant(rows, tenantId) ==
  LET Owned(row) == row.tenant_id = tenantId IN SelectSeq(rows, Owned)

RECURSIVE AgentAnomaliesFrom(_, _, _, _)
AgentAnomaliesFrom(target_agents, sensitivity, store, i) ==
  IF i > Len(target_agents) THEN <<>>
  ELSE LET agentId == target_agents[i]
           detectedAnomalies ==
             detectMetricAnomalies(store.metrics[agentId], sensitivity)
       IN  (IF Len(detectedAnomalies) > 0
            THEN << [agent_id |-> agentId, anomalies |-> detectedAnomalies] >>
            ELSE <<>>)
           \o AgentAnomaliesFrom(target_agents, sensitivity, store, i + 1)

performAnomalyDetection(target_agents, config, store) ==
  LET sensitivity == IF config.sensitivity = "" THEN "medium"
                     ELSE config.sensitivity
      anomalies   == AgentAnomaliesFrom(target_agents, sensitivity, store, 1)
  IN  [ task_type       |-> "anomaly_detection",
        anomalies_found |-> Len(anomalies),
        anomalies       |-> anomalies ]

\* executeMonitoringTask for the three analysis tasks; threw tells that the
\* task threw instead of returning.
executeMonitoringTask(task_type, target_agents, config, store) ==
  CASE task_type = "performance_audit" ->
         LET audit == performPerformanceAudit(target_agents)
         IN  [threw |-> audit.threw, result |-> audit]
    [] task_type = "anomaly_detection" ->
         [threw |-> FALSE,
          result |-> performAnomalyDetection(target_agents, config, store)]
    [] task_type = "capacity_planning" ->
         [threw |-> FALSE,
          result |-> performCapacityPlanning(target_agents, config, store)]

generateReportSummary(agentList, metrics, taskList, logs) ==
  LET IsErrorLog(l) == l.level = "error"
  IN  [ total_agents  |-> Len(agentList),
        active_agents |-> Len(SelectSeq(agentList, IsActive)),
        total_metrics |-> Len(metrics),
        total_tasks   |-> Len(taskList),
        total_logs    |-> Len(logs),
        error_count   |-> Len(SelectSeq(logs, IsErrorLog)),
        success_rate  |->
          IF Len(taskList) > 0
          THEN MathRound(JSMul(JSDiv(JSInt(Len(SelectSeq(taskList, IsCompleted))),
                                     JSInt(Len(taskList))), JSInt(100)))
          ELSE JSInt(0) ]

\* The report without its trend section (see SpecTrends) and its per-agent
\* section: the sections are computed from the rows of the tenant.
generatePerformanceReport(tenantId, store) ==
  LET agentList == OfTenant(store.agents, tenantId)
      metrics   == OfTenant(store.agent_metrics, tenantId)
      taskList  == OfTenant(store.agent_tasks, tenantId)
      logs      == OfTenant(store.agent_logs, tenantId)
  IN  [ summary         |-> generateReportSummary(agentList, metrics, taskList, logs),
        error_analysis  |-> generateErrorAnalysis(logs, taskList),
        recommendations |->
          generatePerformanceRecommendations(agentList, metrics, taskList, logs) ]

Store ==
  [ agents |-> agents, agent_metrics |-> metricRows, agent_tasks |-> tasks,
    agent_logs |-> logRows ]

StoreBecomes(store) ==
  /\ agents' = store.agents
  /\ metricRows' = store.agent_metrics
  /\ tasks' = store.agent_tasks
  /\ logRows' = store.agent_logs

\* monitoring_config: the sensitivity given, the rest left to the defaults.
MonitoringConfig ==
  [ sensitivity |-> "high", expected_growth_rate |-> Undefined,
    projection_period |-> <<>> ]

InitMonitor ==
  /\ fn = "none" /\ args = <<>> /\ ret = Undefined
  /\ sessions = <<>> /\ now = 0
  /\ reqs = NoRequests /\ deploys = <<>> /\ agentMetricRows = {}
  /\ agents = AgentTable
  /\ logRows = <<>>
  /\ \E a \in ResponseTimeLogs, b \in ResponseTimeLogs \ {<<>>},
        na \in {0, 7} :
       /\ metricRows = WithIds(MetricRowsOf("workerA", "tenantA", a)
                               \o MetricRowsOf("workerB", "tenantB", b))
       /\ tasks = TaskRowsOf("workerA", "tenantA", na)
                  \o TaskRowsOf("workerB", "tenantB", 7)

\* GET /report for a tenant.
HandlePerformanceReport ==
  \E tenantId \in Tenants :
    /\ fn' = "generatePerformanceReport"
    /\ args' = [tenantId |-> tenantId]
    /\ ret' = [status |-> 200, report |-> generatePerformanceReport(tenantId, Store)]
    /\ StoreBecomes(StoreAfter(Store, ReportOperations(tenantId), 1))
    /\ UNCHANGED <<reqs, deploys, agentMetricRows, sessions, now>>

\* POST of an analysis task for a tenant, with any agent ids as targets.
HandleMonitoringTask ==
  \E tenantId \in Tenants,
     task_type \in {"performance_audit", "anomaly_detection", "capacity_planning"},
     target_agents \in {<<>>, <<"workerA">>, <<"workerB">>} :
    LET agentId == IF tenantId = "tenantA" THEN "monitorA" ELSE "monitorB"
        outcome == executeMonitoringTask(task_type, target_agents, MonitoringConfig,
                     [ metrics |-> ByAgent(metricRows, agents),
                       tasks   |-> ByAgent(tasks, agents) ])
    IN  /\ Len(logRows) < MaxMonitorPosts
        /\ fn' = "handleMonitoringTask"
        /\ args' = [tenantId |-> tenantId, task_type |-> task_type,
                    target_agents |-> target_agents]
        /\ ret' = IF outcome.threw THEN [status |-> 0, result |-> Undefined]
                  ELSE [status |-> 200, result |-> outcome.result]
        /\ StoreBecomes(
             LET after == StoreAfter(Store,
                            MonitoringOperations(tenantId, agentId, task_type,
                                                 ~outcome.threw), 1)
             IN  [after EXCEPT !.agent_metrics = WithIds(@)])
        /\ UNCHANGED <<reqs, deploys, agentMetricRows, sessions, now>>

NextMonitor ==
  \/ HandlePerformanceReport
  \/ HandleMonitoringTask

SpecMonitor == InitMonitor /\ [][NextMonitor]_vars

\* C19: a report request performs no insert, update or delete: the agents,
\* tasks, metrics and logs tables are after the request what they were
\* before it.
C19_ReportLeavesStoreUnchanged ==
  [][ fn' = "generatePerformanceReport" =>
        UNCHANGED <<agents, tasks, metricRows, logRows>> ]_vars

\* C19's case: a report served from tables that hold rows, some of them
\* written by an earlier monitoring task.
C19_Witness ==
  /\ fn = "generatePerformanceReport"
  /\ ret.report.summary.total_metrics > 0
  /\ ret.report.summary.total_logs > 0

\* C20 (as claimed): the result of an analysis task run for a tenant is the
\* result it has on the rows of that tenant alone, whatever other tenants
\* hold and whichever agent ids are the targets.
C20_TaskResultIgnoresOtherTenants ==
  (fn = "handleMonitoringTask" /\ ret.status = 200) =>
    ret.result =
      executeMonitoringTask(args.task_type, args.target_agents, MonitoringConfig,
        [ metrics |-> ByAgent(OfTenant(metricRows, args.tenantId), agents),
          tasks   |-> ByAgent(OfTenant(tasks, args.tenantId), agents) ]).result

-----------------------------------------------------------------------------
(* Validation of the POST bodies: each request handled as a whole, with the
   body it carried and the status it was answered with.  The deployment that
   a created agent's timer starts later is in SpecAgents. *)

StoreUnchanged ==
  UNCHANGED <<agents, tasks, metricRows, agentMetricRows, logRows, deploys>>

InitValidation ==
  /\ fn = "none" /\ args = <<>> /\ ret = 0
  /\ sessions = <<>> /\ now = 0
  /\ tasks = [t \in TaskIds |-> "none"]
  /\ reqs = NoRequests
  /\ metricRows = {} /\ agentMetricRows = {} /\ logRows = {}
  /\ deploys = [a \in AgentIds |-> "none"]
  \* the tenant's agent of each type, if it has one, and the rows the agent
  \* factory inserts
  /\ \E missing \in {{}} \cup {{Handlers[i]} : i \in 1..Len(Handlers)} :
       agents = [ ofType  |-> [h \in {Handlers[i] : i \in 1..Len(Handlers)} |->
                                IF h \in missing THEN "none" ELSE "active"],
                  created |-> [a \in AgentIds |-> "none"] ]

\* The bodies sent to a handler: the fields it does not read are absent.
BodiesOf(handler) ==
  { body \in Bodies :
      /\ handler # "sentiment-analysis" => body.textLength = 0
      /\ handler # "recommendation" =>
           ~body.user_profile /\ ~body.interaction_history
      /\ handler # "performance-monitor" => ~body.task_type }

\* handleSentimentAnalysis, handleRecommendation or handleMonitoringTask from
\* the validation to the answer; status 0 is the handler ending without an
\* answer (see CatchBlock).
HandlePost ==
  \E i \in 1..Len(Handlers), threw \in BOOLEAN :
  \E body \in BodiesOf(Handlers[i]) :
    LET handler == Handlers[i]
        ins     == IF body.taskId # NoTaskId
                   THEN InsertTaskRow(tasks, body.taskId)
                   ELSE [table |-> tasks, data |-> FALSE]
    IN  /\ fn' = handler
        /\ args' = body
        /\ IF Invalid(handler, body)
           THEN ret' = 400 /\ StoreUnchanged
           ELSE IF agents.ofType[handler] = "none"
           THEN ret' = 404 /\ StoreUnchanged
           ELSE IF threw
           THEN /\ ret' = IF AgentInCatchScope THEN 500 ELSE 0
                /\ tasks' = ins.table
                /\ UNCHANGED <<agents, metricRows, agentMetricRows, logRows,
                               deploys>>
           ELSE /\ ret' = 200
                /\ tasks' = IF ins.data
                            THEN UpdateTaskRow(ins.table, body.taskId, "completed")
                            ELSE ins.table
                /\ metricRows' = metricRows \cup
                     { [agent |-> handler, success |-> TRUE] }
                /\ logRows' = logRows \cup
                     { [agent |-> handler, level |-> "info"] }
                /\ UNCHANGED <<agents, agentMetricRows, deploys>>
        /\ UNCHANGED <<reqs, sessions, now>>

\* handleCreateAgent with the body it was sent.
HandlePostAgent ==
  \E body \in CreateBodies :
    /\ fn' = "agent-factory"
    /\ args' = body
    /\ IF ~body.name \/ body.type = ""
       THEN ret' = 400 /\ StoreUnchanged
       ELSE IF body.type \notin SupportedTypes
       THEN ret' = 400 /\ StoreUnchanged
       ELSE \E a \in AgentIds :
              /\ agents.created[a] = "none"
              /\ \A b \in AgentIds : b < a => agents.created[b] # "none"
              /\ agents' = [agents EXCEPT !.created[a] = "deploying"]
              /\ deploys' = [deploys EXCEPT ![a] = "timer"]
              /\ logRows' = logRows \cup
                   { [agent_id |-> a, level |-> "info", message |-> "created"] }
              /\ ret' = 201
              /\ UNCHANGED <<tasks, metricRows, agentMetricRows>>
    /\ UNCHANGED <<reqs, sessions, now>>

NextValidation ==
  \/ HandlePost
  \/ HandlePostAgent

SpecValidation == InitValidation /\ [][NextValidation]_vars

\* The bodies the claim calls invalid.
FailsValidation(handler, body) ==
  CASE handler = "sentiment-analysis" ->
         body.textLength = 0 \/ body.textLength > 5000
    [] handler = "recommendation" ->
         ~body.user_profile /\ ~body.interaction_history
    [] handler = "performance-monitor" -> ~body.task_type
    [] handler = "agent-factory" ->
         \/ ~body.name
         \/ body.type \notin {"sentiment-analysis", "recommendation",
                              "performance-monitor"}

\* C23: a POST whose body fails validation is answered with 400 and leaves
\* the agents, tasks, metrics and logs as they were.
C23_InvalidPostIs400AndWritesNothing ==
  [][ FailsValidation(fn', args') =>
        /\ ret' = 400
        /\ UNCHANGED <<agents, tasks, metricRows, agentMetricRows, logRows>>
    ]_vars

\* C23's case: a sentiment request with a text of more than 5000 characters
\* and a used task id was refused after earlier requests had written a task,
\* a metric and a log row.
C23_Witness ==
  /\ fn = "sentiment-analysis"
  /\ args.textLength > 5000
  /\ args.taskId # NoTaskId
  /\ ret = 400
  /\ tasks[args.taskId] = "completed"
  /\ metricRows # {}
  /\ logRows # {}

-----------------------------------------------------------------------------
(* AuthUtils.checkRateLimit: concurrent checks within one window.  The
   rate_limit_log rows are in logRows, the calls in progress in reqs; every
   row stays inside the window. *)

MaxChecks == 3
RateLimit == 2

Checks      == 1..MaxChecks
Identifiers == {"key-1", "key-2"}

IdleCheck ==
  [pc |-> "idle", identifier |-> "", requestCount |-> 0, allowed |-> FALSE,
   error |-> FALSE]

RateLimitFrame ==
  UNCHANGED <<fn, args, ret, tasks, metricRows, agents, deploys,
              agentMetricRows, sessions, now>>

InitRateLimit ==
  /\ fn = "none" /\ args = <<>> /\ ret = 0
  /\ sessions = <<>> /\ now = 0
  /\ tasks = <<>> /\ metricRows = <<>> /\ agents = <<>> /\ deploys = <<>>
  /\ agentMetricRows = {}
  /\ reqs = [c \in Checks |-> IdleCheck]
  /\ logRows = {}

\* checkRateLimit(identifier, limit) is called.
CheckStarts(c) ==
  /\ reqs[c].pc = "idle"
  /\ \E identifier \in Identifiers :
       reqs' = [reqs EXCEPT ![c].pc = "select", ![c].identifier = identifier]
  /\ UNCHANGED logRows /\ RateLimitFrame

\* The select resolves with the rows of the identifier in the window:
\* requestCount = requests.length, allowed = requestCount < limit.
CheckCounts(c) ==
  /\ reqs[c].pc = "select"
  /\ LET requestCount ==
           Cardinality({row \in logRows : row.identifier = reqs[c].identifier})
         allowed == requestCount < RateLimit
     IN  reqs' = [reqs EXCEPT ![c].requestCount = requestCount,
                              ![c].allowed = allowed,
                              ![c].pc = IF allowed THEN "insert" ELSE "done"]
  /\ UNCHANGED logRows /\ RateLimitFrame

\* The select resolves with an error: allowed, and nothing is logged.
CheckSelectFails(c) ==
  /\ reqs[c].pc = "select"
  /\ reqs' = [reqs EXCEPT ![c].allowed = TRUE, ![c].error = TRUE,
                          ![c].pc = "done"]
  /\ UNCHANGED logRows /\ RateLimitFrame

\* if (allowed) insert the row of this request; then the result is returned.
CheckLogs(c) ==
  /\ reqs[c].pc = "insert"
  /\ logRows' = logRows \cup {[identifier |-> reqs[c].identifier, id |-> c]}
  /\ reqs' = [reqs EXCEPT ![c].pc = "done"]
  /\ RateLimitFrame

NextRateLimit ==
  \E c \in Checks :
    \/ CheckStarts(c)
    \/ CheckCounts(c)
    \/ CheckSelectFails(c)
    \/ CheckLogs(c)

SpecRateLimit == InitRateLimit /\ [][NextRateLimit]_vars

\* C25 (as claimed): for every identifier, the checks that counted the rows
\* of the window and returned allowed are at most the limit, however the
\* checks interleave.
C25_AllowedWithinLimit ==
  \A identifier \in Identifiers :
    Cardinality({c \in Checks : /\ reqs[c].pc = "done"
                                /\ reqs[c].identifier = identifier
                                /\ reqs[c].allowed
                                /\ ~reqs[c].error}) <= RateLimit

-----------------------------------------------------------------------------
(* AuthUtils.createSession, verifySession and revokeSession with the clock.
   Times are in minutes.  reqs holds the session ids for which revokeSession
   has returned success. *)

MaxSessions   == 2
MaxClockTicks == 3

\* generateRandomKey() gives a key that was not used before: the keys are
\* numbered in the order of their creation, from 1.
SessionIds == 1..MaxSessions

\* The ids a caller may pass: those of the sessions and one that was never
\* generated.
PassedIds(rows) == {row.id : row \in rows} \cup {0}

\* expiresIn as the sequence of its characters.
ExpiresIns ==
  { <<"1", "h">>, <<"3", "0", "m">>, <<"0", "h">>, <<"-", "1", "h">>,
    <<"1", "d">>, <<"h">>, <<"2", "4">> }

\* expiresAt of createSession, in minutes: parseInt(expiresIn.slice(0, -1))
\* hours, days or minutes after the clock, 24 hours after it for any other
\* unit.  NaN is the Invalid Date, on which toISOString() throws.
SessionExpiresAt(clock, expiresIn) ==
  LET n         == Len(expiresIn)
      timeValue == ParseInt(IF n = 0 THEN <<>> ELSE SubSeq(expiresIn, 1, n - 1))
      timeUnit  == IF n = 0 THEN "" ELSE expiresIn[n]
  IN  CASE timeUnit = "h" -> JSAdd(JSInt(clock), JSMul(timeValue, JSInt(60)))
        [] timeUnit = "d" -> JSAdd(JSInt(clock), JSMul(timeValue, JSInt(24 * 60)))
        [] timeUnit = "m" -> JSAdd(JSInt(clock), timeValue)
        [] OTHER          -> JSInt(clock + 24 * 60)

\* No update at all (a mutation of the code).
UpdateNoSession(rows, sessionId) == rows

\* update({ is_active: false }).eq('id', sessionId)
DeactivateSession(rows, sessionId) ==
  { IF row.id = sessionId THEN [row EXCEPT !.is_active = FALSE] ELSE row :
      row \in rows }

\* select ... .eq('id', sessionId).eq('is_active', true)
\*   .gt('expires_at', new Date().toISOString())
SelectValidSession(rows, sessionId, clock) ==
  { row \in rows : /\ row.id = sessionId
                   /\ row.is_active
                   /\ row.expires_at > clock }

SessionFrame ==
  UNCHANGED <<tasks, metricRows, agents, deploys, agentMetricRows, logRows>>

InitSession ==
  /\ fn = "none" /\ args = <<>> /\ ret = [ok |-> FALSE]
  /\ tasks = <<>> /\ metricRows = <<>> /\ agents = <<>> /\ deploys = <<>>
  /\ agentMetricRows = {} /\ logRows = {}
  /\ reqs = {}
  /\ sessions = {}
  /\ now = 0

\* Half an hour passes.
SessionClockAdvances ==
  /\ now < MaxClockTicks * 30
  /\ now' = now + 30
  /\ UNCHANGED <<fn, args, ret, reqs, sessions>> /\ SessionFrame

\* createSession(user, expiresIn): the row is inserted unless the expiry is
\* the Invalid Date, in which case the call throws before the insert.
CreateSession ==
  \E expiresIn \in ExpiresIns :
    LET sessionId == Cardinality(sessions) + 1
        expiresAt == SessionExpiresAt(now, expiresIn)
    IN  /\ sessionId \in SessionIds
        /\ fn' = "createSession"
        /\ args' = [expiresIn |-> expiresIn]
        /\ IF IsNaN(expiresAt)
           THEN ret' = [ok |-> FALSE] /\ sessions' = sessions
           ELSE /\ ret' = [ok |-> TRUE]
                /\ sessions' = sessions \cup
                     { [id |-> sessionId, expires_at |-> expiresAt.n,
                        is_active |-> TRUE] }
        /\ UNCHANGED <<reqs, now>> /\ SessionFrame

\* verifySession(sessionId): throws unless the select gives the row.
VerifySession ==
  \E sessionId \in PassedIds(sessions) :
    /\ fn' = "verifySession"
    /\ args' = [sessionId |-> sessionId]
    /\ ret' = [ok |-> SelectValidSession(sessions, sessionId, now) # {}]
    /\ UNCHANGED <<reqs, sessions, now>> /\ SessionFrame

\* revokeSession(sessionId) for a session that was issued or a forged id:
\* the update of no row is no error, so the call returns success.
RevokeSession ==
  \E sessionId \in PassedIds(sessions) :
    /\ fn' = "revokeSession"
    /\ args' = [sessionId |-> sessionId]
    /\ sessions' = DeactivateSession(sessions, sessionId)
    /\ ret' = [ok |-> TRUE]
    /\ reqs' = reqs \cup {sessionId}
    /\ UNCHANGED now /\ SessionFrame

NextSession ==
  \/ SessionClockAdvances
  \/ CreateSession
  \/ VerifySession
  \/ RevokeSession

SpecSession == InitSession /\ [][NextSession]_vars

\* C26: a call verifySession(id) succeeds only when createSession stored a
\* session of that id, revokeSession has not succeeded for it before the
\* call and the clock has not reached its expires_at.
C26_VerifiedSessionIsLive ==
  [][ (fn' = "verifySession" /\ ret'.ok /\ UNCHANGED <<sessions, reqs, now>>) =>
        /\ args'.sessionId \notin reqs
        /\ \E row \in sessions :
             row.id = args'.sessionId /\ now < row.expires_at ]_vars

\* C26's case: verifySession has just failed for a session that was created,
\* has not expired and was revoked, beside a session that expired unrevoked.
C26_Witness ==
  /\ fn = "verifySession"
  /\ ~ret.ok
  /\ args.sessionId \in reqs
  /\ \E row \in sessions : row.id = args.sessionId /\ now < row.expires_at
  /\ \E row \in sessions : row.id \notin reqs /\ now >= row.expires_at

-----------------------------------------------------------------------------
(* AuthUtils.checkPermission.  An action is the sequence of the pieces of its
   string, e.g. <<"update", ":", "own_", "agents">> for 'update:own_agents',
   so that includes('own_'), replace('own_', '') and the template string are
   operations on sequences. *)

RolePermissions(role) ==
  CASE role = "admin" -> { <<"*">> }
    [] role = "user" ->
         { <<"read", ":", "agents">>, <<"create", ":", "agents">>,
           <<"update", ":", "own_", "agents">>,
           <<"delete", ":", "own_", "agents">>,
           <<"read", ":", "tasks">>, <<"create", ":", "tasks">>,
           <<"read", ":", "metrics">>, <<"read", ":", "logs">> }
    [] OTHER ->
         \* permissions[user.role] || permissions.viewer
         { <<"read", ":", "agents">>, <<"read", ":", "tasks">>,
           <<"read", ":", "metrics">>, <<"read", ":", "logs">> }

\* action.includes('own_')
IncludesOwn(action) == \E i \in 1..Len(action) : action[i] = "own_"

\* action.replace('own_', ''): the first occurrence is removed.
ReplaceOwn(action) ==
  IF ~IncludesOwn(action) THEN action
  ELSE LET i == CHOOSE k \in 1..Len(action) :
                  action[k] = "own_" /\ \A j \in 1..(k - 1) : action[j] # "own_"
       IN  SubSeq(action, 1, i - 1) \o SubSeq(action, i + 1, Len(action))

\* Every permission is granted (a mutation of the code).
GrantAll(user, action, resource) == TRUE

\* resource.given is FALSE for the default resource = null.
checkPermission(user, action, resource) ==
  LET userPermissions == RolePermissions(user.role)
  IN  IF <<"*">> \in userPermissions THEN TRUE
      ELSE IF action \in userPermissions THEN TRUE
      ELSE IF resource.given /\ IncludesOwn(action)
      THEN LET baseAction == ReplaceOwn(action)
           IN  /\ (baseAction \o <<":", "own_", resource.type>>)
                    \in userPermissions
               /\ resource.created_by = user.id
      ELSE FALSE

UserIds == {"u1", "u2"}

PermissionActions ==
  { <<verb, ":", noun>> : verb \in {"read", "create", "update", "delete"},
                          noun \in {"agents", "tasks"} }
  \cup { <<verb, ":", "own_", "agents">> : verb \in {"update", "delete"} }

PermissionResources ==
  { [given |-> FALSE, type |-> "", created_by |-> ""] }
  \cup [ given : {TRUE}, type : {"agents", "agent"}, created_by : UserIds ]

InitPermission ==
  /\ fn = "none"
  /\ ret = FALSE
  /\ \E role \in {"admin", "user", "viewer", "guest"}, id \in UserIds,
        action \in PermissionActions, resource \in PermissionResources :
       args = [ user |-> [id |-> id, role |-> role], action |-> action,
                resource |-> resource ]
  /\ IdleBackend

CallCheckPermission ==
  /\ fn = "none"
  /\ fn' = "checkPermission"
  /\ ret' = checkPermission(args.user, args.action, args.resource)
  /\ UNCHANGED args
  /\ BackendUnchanged

NextPermission == CallCheckPermission

SpecPermission == InitPermission /\ [][NextPermission]_vars

\* C27 (as claimed): a user of role 'user' is granted update:own_agents or
\* delete:own_agents only for a resource whose created_by is the user's id;
\* a viewer or an unknown role is granted only read actions; an admin is
\* granted every action.
C27_OwnershipScopedGrant ==
  fn = "checkPermission" =>
    /\ args.user.role = "admin" => ret
    /\ (args.user.role \notin {"admin", "user"} /\ ret) =>
         args.action[1] = "read"
    /\ (args.user.role = "user" /\ IncludesOwn(args.action) /\ ret) =>
         /\ args.resource.given
         /\ args.resource.created_by = args.user.id

-----------------------------------------------------------------------------
(* The middleware of AuthUtils.requireAuth(options).  reqs is the frame of
   the request being served, ret the number of requests that have arrived,
   args the environment, logRows the rate_limit_log.  The requests are served
   one after the other; the interleaving of two rate limit checks is in
   SpecRateLimit. *)

MaxAuthRequests == 3

\* The x-api-key and authorization headers: absent (""), valid or invalid.
AuthHeaders ==
  { [apiKey |-> "valid", authorization |-> ""],
    [apiKey |-> "invalid", authorization |-> "valid"],
    [apiKey |-> "", authorization |-> "valid"],
    [apiKey |-> "", authorization |-> "invalid"],
    [apiKey |-> "", authorization |-> ""] }

\* options.permission (<<>> when there is none) and options.rateLimit.
AuthOptions ==
  [ permission : { <<>>, <<"read", ":", "agents">>, <<"create", ":", "agents">> },
    rateLimit  : BOOLEAN ]

NoUser == [id |-> "", role |-> ""]

\* authenticateRequestFlexible: the API key first, then the JWT, then the
\* development fallback; threw when verification fails or nothing is given.
\* The owner of the API key has role 'user', the owner of the token 'viewer'.
authenticateRequestFlexible(headers, development) ==
  IF headers.apiKey # ""
  THEN IF headers.apiKey = "valid"
       THEN [threw |-> FALSE, user |-> [id |-> "u1", role |-> "user"]]
       ELSE [threw |-> TRUE, user |-> NoUser]
  ELSE IF headers.authorization # ""
  THEN IF headers.authorization = "valid"
       THEN [threw |-> FALSE, user |-> [id |-> "u2", role |-> "viewer"]]
       ELSE [threw |-> TRUE, user |-> NoUser]
  ELSE IF development
  THEN [threw |-> FALSE, user |-> [id |-> "dev-user", role |-> "admin"]]
  ELSE [threw |-> TRUE, user |-> NoUser]

\* The permission check of the middleware: options.resource is not set.
HasPermission(user, action) ==
  checkPermission(user, action, [given |-> FALSE, type |-> "", created_by |-> ""])

IdleAuthRequest ==
  [ pc |-> "done", headers |-> [apiKey |-> "", authorization |-> ""],
    options |-> [permission |-> <<>>, rateLimit |-> FALSE], user |-> NoUser,
    requestCount |-> 0, error |-> FALSE, status |-> 0, nextCalls |-> 0 ]

AuthFrame ==
  UNCHANGED <<fn, args, tasks, metricRows, agents, deploys, agentMetricRows,
              sessions, now>>

InitRequireAuth ==
  /\ fn = "none" /\ ret = 0
  /\ \E development \in BOOLEAN : args = [development |-> development]
  /\ tasks = <<>> /\ metricRows = <<>> /\ agents = <<>> /\ deploys = <<>>
  /\ agentMetricRows = {} /\ sessions = <<>> /\ now = 0
  /\ reqs = IdleAuthRequest
  /\ logRows = {}

\* A request reaches the middleware.
AuthRequestArrives ==
  /\ reqs.pc = "done"
  /\ ret < MaxAuthRequests
  /\ ret' = ret + 1
  /\ \E headers \in AuthHeaders, options \in AuthOptions :
       reqs' = [IdleAuthRequest EXCEPT !.pc = "authenticate",
                                       !.headers = headers,
                                       !.options = options]
  /\ UNCHANGED logRows /\ AuthFrame

\* const auth = await this.authenticateRequestFlexible(req); a throw is
\* answered 401 by the catch block.
AuthAuthenticates ==
  /\ reqs.pc = "authenticate"
  /\ LET auth == authenticateRequestFlexible(reqs.headers, args.development)
     IN  reqs' = IF auth.threw
                 THEN [reqs EXCEPT !.pc = "done", !.status = 401]
                 ELSE [reqs EXCEPT !.pc = "permission", !.user = auth.user]
  /\ UNCHANGED <<ret, logRows>> /\ AuthFrame

\* if (options.permission) { 403 unless checkPermission grants it }
AuthChecksPermission ==
  /\ reqs.pc = "permission"
  /\ reqs' = IF reqs.options.permission # <<>>
                /\ ~HasPermission(reqs.user, reqs.options.permission)
             THEN [reqs EXCEPT !.pc = "done", !.status = 403]
             ELSE [reqs EXCEPT !.pc = IF reqs.options.rateLimit
                                      THEN "rateLimit" ELSE "next"]
  /\ UNCHANGED <<ret, logRows>> /\ AuthFrame

\* if (options.rateLimit) { checkRateLimit(auth.user.id, limit, windowMs);
\* 429 unless it allows the request }: the select counts the rows of the
\* user or resolves with an error, and an allowed request is logged.
AuthChecksRateLimit ==
  /\ reqs.pc = "rateLimit"
  /\ \E error \in BOOLEAN :
       LET requestCount ==
             Cardinality({row \in logRows : row.identifier = reqs.user.id})
       IN  IF error
           THEN /\ reqs' = [reqs EXCEPT !.pc = "next", !.error = TRUE]
                /\ logRows' = logRows
           ELSE IF requestCount < RateLimit
           THEN /\ reqs' = [reqs EXCEPT !.pc = "next",
                                        !.requestCount = requestCount]
                /\ logRows' = logRows \cup
                     {[identifier |-> reqs.user.id, id |-> ret]}
           ELSE /\ reqs' = [reqs EXCEPT !.pc = "done", !.status = 429,
                                        !.requestCount = requestCount]
                /\ logRows' = logRows
  /\ UNCHANGED ret /\ AuthFrame

\* next() is called and returns.
AuthCallsNext ==
  /\ reqs.pc = "next"
  /\ reqs' = [reqs EXCEPT !.pc = "done", !.nextCalls = @ + 1]
  /\ UNCHANGED <<ret, logRows>> /\ AuthFrame

\* next() is called and throws: the catch block answers 401.
AuthNextThrows ==
  /\ reqs.pc = "next"
  /\ reqs' = [reqs EXCEPT !.pc = "done", !.nextCalls = @ + 1, !.status = 401]
  /\ UNCHANGED <<ret, logRows>> /\ AuthFrame

NextRequireAuth ==
  \/ AuthRequestArrives
  \/ AuthAuthenticates
  \/ AuthChecksPermission
  \/ AuthChecksRateLimit
  \/ AuthCallsNext
  \/ AuthNextThrows

SpecRequireAuth == InitRequireAuth /\ [][NextRequireAuth]_vars

\* The request carries credentials that authenticate it.
Authenticated(q) ==
  \/ q.headers.apiKey = "valid"
  \/ q.headers.apiKey = "" /\ q.headers.authorization = "valid"
  \/ q.headers.apiKey = "" /\ q.headers.authorization = "" /\ args.development

\* The role of the user holds the permission the middleware requires.
Permitted(q) ==
  \/ q.options.permission = <<>>
  \/ <<"*">> \in RolePermissions(q.user.role)
  \/ q.options.permission \in RolePermissions(q.user.role)

\* The rate limit check counted as many rows as the limit, or more.
RateLimited(q) ==
  q.options.rateLimit /\ ~q.error /\ q.requestCount >= RateLimit

\* C28: the middleware calls next() at most once for a request, and only for
\* a request that is authenticated, permitted and not rate limited; a request
\* that is not authenticated ends with 401, one that is not permitted with
\* 403, one that is rate limited with 429, each without a call of next().
C28_NextOnlyAfterAllChecks ==
  /\ reqs.nextCalls <= 1
  /\ reqs.nextCalls = 1 =>
       Authenticated(reqs) /\ Permitted(reqs) /\ ~RateLimited(reqs)
  /\ (reqs.pc = "done" /\ ret > 0) =>
       /\ ~Authenticated(reqs) => reqs.status = 401 /\ reqs.nextCalls = 0
       /\ (Authenticated(reqs) /\ ~Permitted(reqs)) =>
            reqs.status = 403 /\ reqs.nextCalls = 0
       /\ (Authenticated(reqs) /\ Permitted(reqs) /\ RateLimited(reqs)) =>
            reqs.status = 429 /\ reqs.nextCalls = 0

\* C28's case: the request of a user who holds the required permission was
\* refused with 429, after requests of the same user had been passed on.
C28_Witness ==
  /\ reqs.pc = "done"
  /\ reqs.status = 429
  /\ reqs.options.permission # <<>>
  /\ reqs.nextCalls = 0
  /\ \E row \in logRows : row.identifier = reqs.user.id

-----------------------------------------------------------------------------
(* DatabaseUtils.executeTransaction.  args holds the operations, reqs the
   position of the loop, ret the results, logRows the records the
   operations have inserted, in the order of their insertion. *)

MaxOperations == 3

\* An operation names a method of DatabaseUtils and its arguments: an insert
\* of one record, or a name that is no method.
Operations == [ method : {"batchInsert", "notAMethod"}, record : {"a", "b"} ]

\* The loop goes on after a failure (a mutation of the code).
ContinueAfterThrow(i, operations) == i + 1

\* break: the position after the failure of operation i is past the end.
PositionAfterThrow(i, operations) == Len(operations) + 1

TransactionFrame ==
  UNCHANGED <<tasks, metricRows, agents, deploys, agentMetricRows, sessions,
              now>>

InitTransaction ==
  /\ fn = "none" /\ ret = <<>>
  /\ \E operations \in BoundedSeq(Operations, MaxOperations) :
       args = [operations |-> operations]
  /\ tasks = <<>> /\ metricRows = <<>> /\ agents = <<>> /\ deploys = <<>>
  /\ agentMetricRows = {} /\ sessions = <<>> /\ now = 0
  /\ reqs = [pc |-> "idle", i |-> 1]
  /\ logRows = <<>>

\* const results = []; the loop starts at the first operation.
TransactionStarts ==
  /\ reqs.pc = "idle"
  /\ fn' = "executeTransaction"
  /\ reqs' = [pc |-> "loop", i |-> 1]
  /\ UNCHANGED <<args, ret, logRows>> /\ TransactionFrame

\* await this[operation.method](...operation.args) resolves: the insert is
\* done and { success: true, result } is pushed.
OperationSucceeds ==
  /\ reqs.pc = "loop" /\ reqs.i <= Len(args.operations)
  /\ args.operations[reqs.i].method = "batchInsert"
  /\ logRows' = Append(logRows, args.operations[reqs.i].record)
  /\ ret' = Append(ret, [success |-> TRUE, operation |-> reqs.i])
  /\ reqs' = [reqs EXCEPT !.i = @ + 1]
  /\ UNCHANGED <<fn, args>> /\ TransactionFrame

\* The call throws (the insert resolves with an error, or the name is no
\* method): { success: false, error } is pushed and the loop is left.
OperationThrows ==
  /\ reqs.pc = "loop" /\ reqs.i <= Len(args.operations)
  /\ ret' = Append(ret, [success |-> FALSE, operation |-> reqs.i])
  /\ reqs' = [reqs EXCEPT !.i = PositionAfterThrow(reqs.i, args.operations)]
  /\ UNCHANGED <<fn, args, logRows>> /\ TransactionFrame

\* return results
TransactionReturns ==
  /\ reqs.pc = "loop" /\ reqs.i > Len(args.operations)
  /\ reqs' = [reqs EXCEPT !.pc = "returned"]
  /\ UNCHANGED <<fn, args, ret, logRows>> /\ TransactionFrame

NextTransaction ==
  \/ TransactionStarts
  \/ OperationSucceeds
  \/ OperationThrows
  \/ TransactionReturns

SpecTransaction == InitTransaction /\ [][NextTransaction]_vars

\* C29: the results are those of the operations 1, 2, ... in list order, one
\* each; only the last result can be a failure, and after it no operation
\* runs; the inserts of the operations that succeeded before it are all in
\* the table, in list order; without a failure every operation has run when
\* the call returns.
C29_StopsAtFirstFailure ==
  /\ Len(ret) <= Len(args.operations)
  /\ \A k \in 1..Len(ret) :
       /\ ret[k].operation = k
       /\ k < Len(ret) => ret[k].success
  /\ LET succeeded == Cardinality({k \in 1..Len(ret) : ret[k].success})
     IN  /\ Len(logRows) = succeeded
         /\ \A k \in 1..succeeded : logRows[k] = args.operations[k].record
  /\ reqs.pc = "returned" =>
       \/ Len(ret) = Len(args.operations)
       \/ ~ret[Len(ret)].success

\* C29's case: the call has returned after its second operation failed: the
\* first operation's insert is kept and the third operation never ran.
C29_Witness ==
  /\ reqs.pc = "returned"
  /\ Len(args.operations) = 3
  /\ Len(ret) = 2
  /\ ret[1].success /\ ~ret[2].success
  /\ args.operations[3].method = "batchInsert"
  /\ logRows = << args.operations[1].record >>

-----------------------------------------------------------------------------
(* HuggingFaceUtils.processBatch.  args holds the requests and the options,
   reqs the state of the loop and of each request's promise, ret the
   results. *)

MaxBatchRequests == 4

DefaultBatchSize == 5

\* A request names a method of HuggingFaceUtils or a name that is no method.
BatchMethods == {"analyzeSentiment", "notAMethod"}

\* options.batchSize || 5
BatchSizeOf(options) ==
  IF options.batchSize = 0 THEN DefaultBatchSize ELSE options.batchSize

\* requests.slice(i, i + batchSize), as the positions in the list, from 1.
BatchAt(i, batchSize, n) == {k \in 1..n : i < k /\ k <= i + batchSize}

\* The results pushed in the order in which the promises settled (a mutation
\* of the code).
InCompletionOrder(batch, completed) == completed

\* await Promise.all(batchPromises): the values in the order of the batch,
\* whatever the order in which the promises settled.
InBatchOrder(batch, completed) ==
  LET first == CHOOSE k \in batch : \A j \in batch : k <= j
  IN  [k \in 1..Cardinality(batch) |-> first + k - 1]

BatchFrame ==
  UNCHANGED <<tasks, metricRows, agents, deploys, agentMetricRows, logRows,
              sessions, now>>

InitBatch ==
  /\ fn = "none" /\ ret = <<>>
  /\ \E methods \in BoundedSeq(BatchMethods, MaxBatchRequests),
        batchSize \in {0, 2} :
       /\ args = [requests |-> methods, options |-> [batchSize |-> batchSize]]
       /\ reqs = [ pc |-> "idle", i |-> 0, completed |-> <<>>,
                   promise |-> [k \in 1..Len(methods) |-> "none"] ]
  /\ tasks = <<>> /\ metricRows = <<>> /\ agents = <<>> /\ deploys = <<>>
  /\ agentMetricRows = {} /\ logRows = {} /\ sessions = <<>> /\ now = 0

\* The for loop reaches its test: with requests left, batch.map(...) calls
\* the method of every request of the batch; without, results is returned.
BatchStarts ==
  /\ reqs.pc \in {"idle", "loop"}
  /\ fn' = "processBatch"
  /\ LET batch == BatchAt(reqs.i, BatchSizeOf(args.options), Len(args.requests))
     IN  reqs' = IF reqs.i < Len(args.requests)
                 THEN [reqs EXCEPT
                         !.pc = "all", !.completed = <<>>,
                         !.promise = [k \in DOMAIN @ |->
                                        IF k \in batch THEN "pending" ELSE @[k]]]
                 ELSE [reqs EXCEPT !.pc = "returned"]
  /\ UNCHANGED <<args, ret>> /\ BatchFrame

\* The call of a request resolves: { success: true, result, request }.
RequestResolves(k) ==
  /\ reqs.pc = "all" /\ reqs.promise[k] = "pending"
  /\ args.requests[k] = "analyzeSentiment"
  /\ reqs' = [reqs EXCEPT !.promise[k] = "resolved",
                          !.completed = Append(@, k)]
  /\ UNCHANGED <<fn, args, ret>> /\ BatchFrame

\* The call of a request throws: { success: false, error, request }.
RequestThrows(k) ==
  /\ reqs.pc = "all" /\ reqs.promise[k] = "pending"
  /\ reqs' = [reqs EXCEPT !.promise[k] = "threw",
                          !.completed = Append(@, k)]
  /\ UNCHANGED <<fn, args, ret>> /\ BatchFrame

\* Promise.all resolves once every promise of the batch has; the results are
\* pushed, and unless the batch was the last the delay starts.
BatchSettles ==
  /\ reqs.pc = "all"
  /\ \A k \in DOMAIN reqs.promise : reqs.promise[k] # "pending"
  /\ LET batchSize == BatchSizeOf(args.options)
         batch == BatchAt(reqs.i, batchSize, Len(args.requests))
         order == InBatchOrder(batch, reqs.completed)
     IN  /\ ret' = ret \o [j \in 1..Len(order) |->
                             [ success |-> reqs.promise[order[j]] = "resolved",
                               request |-> order[j] ]]
         /\ reqs' = [reqs EXCEPT
                       !.pc = IF reqs.i + batchSize < Len(args.requests)
                              THEN "delay" ELSE "loop",
                       !.i = @ + batchSize]
  /\ UNCHANGED <<fn, args>> /\ BatchFrame

\* The delay between two batches elapses.
BatchDelayElapses ==
  /\ reqs.pc = "delay"
  /\ reqs' = [reqs EXCEPT !.pc = "loop"]
  /\ UNCHANGED <<fn, args, ret>> /\ BatchFrame

NextBatch ==
  \/ BatchStarts
  \/ \E k \in DOMAIN args.requests : RequestResolves(k)
  \/ \E k \in DOMAIN args.requests : RequestThrows(k)
  \/ BatchSettles
  \/ BatchDelayElapses

SpecBatch == InitBatch /\ [][NextBatch]_vars

\* C30: processBatch returns one result per request, in the order of the
\* list, with success false exactly for the requests that threw; and while
\* a request is started, every request of the earlier batches has settled.
C30_OneResultPerRequestInOrder ==
  /\ reqs.pc = "returned" =>
       /\ Len(ret) = Len(args.requests)
       /\ \A k \in 1..Len(ret) :
            /\ ret[k].request = k
            /\ ret[k].success = (reqs.promise[k] = "resolved")
            /\ reqs.promise[k] \in {"resolved", "threw"}
  /\ \A k \in DOMAIN reqs.promise :
       reqs.promise[k] # "none" =>
         \A j \in 1..(k - 1) :
           ((j - 1) \div BatchSizeOf(args.options)
              < (k - 1) \div BatchSizeOf(args.options))
             => reqs.promise[j] \in {"resolved", "threw"}

\* C30's case: processBatch has returned after two batches, in the first of
\* which the second request threw before the first one resolved.
C30_Witness ==
  /\ reqs.pc = "returned"
  /\ Len(ret) = 4
  /\ args.options.batchSize = 2
  /\ ~ret[2].success /\ ret[1].success /\ ret[3].success
  /\ reqs.completed = <<4, 3>>

=============================================================================
